---------------------------- MODULE Spec2Model ----------------------------
(***************************************************************************)
(* Cross-validation of tree-sitter-kotlin against the JetBrains PSI        *)
(* parser: the tree model (models.py), the correspondence tables           *)
(* (mapping.py), the two normalizers (normalizer.py) and the structural    *)
(* comparator (comparator.py).                                             *)
(*                                                                         *)
(* The normalizers and the comparator are pure recursive functions; each   *)
(* is an operator here, applied by one action to an input drawn from a     *)
(* bounded set of trees.                                                   *)
(***************************************************************************)
EXTENDS Integers, Sequences, FiniteSets, TLC

VARIABLES
  ts_tree,    \* compare_trees: the candidate (tree-sitter) argument, or None
  psi_tree,   \* compare_trees: the reference (PSI) argument, or None
  result,     \* the CompareResult returned by compare_trees, or NotRun
  visited,    \* the calls of _compare_nodes made by compare_trees, in call order
  ts_node,    \* normalize_ts: the argument
  ts_norm,    \* the value returned by normalize_ts, or NotRun
  psi_node,   \* normalize_psi: the argument
  psi_norm,   \* the value returned by normalize_psi, or NotRun
  psi_again,  \* the value returned by normalize_psi for psi_norm, or NotRun
  parsed_lines,  \* parse_psi: the (indent, name) pairs kept by _parse_lines
  call_stack  \* the calls of a normalizer that are still to be made, next first

vars == <<ts_tree, psi_tree, result, visited, ts_node, ts_norm, psi_node, psi_norm,
          psi_again, parsed_lines, call_stack>>

-----------------------------------------------------------------------------
(* Bounds of the checked inputs.                                           *)

\* largest number of nodes of a tree handed to compare_trees
MaxCmpNodes == 3

\* largest number of nodes of a tree handed to normalize_ts
MaxTsNodes == 4

\* largest number of nodes below a node whose name ranges over the whole
\* tree-sitter vocabulary
MaxTsKids == 2

\* largest number of (indent, name) pairs handed to _build_tree
MaxLines == 4

\* largest indent of a pair
MaxIndent == 2

\* largest number of nodes of a tree handed to normalize_psi
MaxPsiNodes == 4

-----------------------------------------------------------------------------
(* models.py                                                               *)

\* Python's None where a Node is expected
None == [none |-> TRUE]

\* Python's None where a name is expected (a value of TS_TO_PSI)
PyNone == "<None>"

\* an operation that has not run yet
NotRun == [pending |-> TRUE]

Node(name, children) == [name |-> name, children |-> children]

\* The ordered trees of exactly n nodes / the forests of exactly m nodes
\* with names in Names.
RECURSIVE TreesOfSize(_, _), ForestsOfSize(_, _)
TreesOfSize(Names, n) ==
  IF n = 0 THEN {}
  ELSE { Node(nm, f) : nm \in Names, f \in ForestsOfSize(Names, n - 1) }

ForestsOfSize(Names, m) ==
  IF m = 0 THEN { <<>> }
  ELSE UNION { { <<t>> \o f : t \in TreesOfSize(Names, j),
                              f \in ForestsOfSize(Names, m - j) } : j \in 1..m }

TreesUpTo(Names, n) == UNION { TreesOfSize(Names, j) : j \in 1..n }

ForestsUpTo(Names, m) == UNION { ForestsOfSize(Names, j) : j \in 0..m }

\* every node of a tree, the root included
RECURSIVE NodesOf(_)
NodesOf(t) == {t} \cup UNION { NodesOf(t.children[i]) : i \in DOMAIN t.children }

\* the names that occur in a tree
NamesOf(t) == { n.name : n \in NodesOf(t) }

\* concatenation of a sequence of sequences
RECURSIVE Flatten(_)
Flatten(ss) == IF ss = <<>> THEN <<>> ELSE Head(ss) \o Flatten(Tail(ss))

-----------------------------------------------------------------------------
(* mapping.py                                                              *)

TS_TO_PSI ==
  "source_file" :> "KtFile" @@
  "package_header" :> "PACKAGE_DIRECTIVE" @@
  "import_list" :> "IMPORT_LIST" @@
  "import_header" :> "IMPORT_DIRECTIVE" @@
  "import_alias" :> "IMPORT_ALIAS" @@
  "wildcard_import" :> PyNone @@
  "class_declaration" :> "CLASS" @@
  "class_body" :> "CLASS_BODY" @@
  "class_parameter" :> "VALUE_PARAMETER" @@
  "companion_object" :> "OBJECT_DECLARATION" @@
  "object_declaration" :> "OBJECT_DECLARATION" @@
  "object_literal" :> "OBJECT_LITERAL" @@
  "enum_class_body" :> "CLASS_BODY" @@
  "enum_entry" :> "ENUM_ENTRY" @@
  "type_alias" :> "TYPEALIAS" @@
  "primary_constructor" :> "PRIMARY_CONSTRUCTOR" @@
  "secondary_constructor" :> "SECONDARY_CONSTRUCTOR" @@
  "constructor_delegation_call" :> "CONSTRUCTOR_DELEGATION_CALL" @@
  "constructor_invocation" :> PyNone @@
  "function_declaration" :> "FUN" @@
  "function_body" :> "BLOCK" @@
  "function_value_parameters" :> "VALUE_PARAMETER_LIST" @@
  "parameter" :> "VALUE_PARAMETER" @@
  "parameter_with_optional_type" :> "VALUE_PARAMETER" @@
  "getter" :> "PROPERTY_ACCESSOR" @@
  "setter" :> "PROPERTY_ACCESSOR" @@
  "anonymous_function" :> "FUN" @@
  "property_declaration" :> "PROPERTY" @@
  "property_delegate" :> "PROPERTY_DELEGATE" @@
  "type_parameters" :> "TYPE_PARAMETER_LIST" @@
  "type_parameter" :> "TYPE_PARAMETER" @@
  "type_arguments" :> "TYPE_ARGUMENT_LIST" @@
  "type_projection" :> "TYPE_PROJECTION" @@
  "user_type" :> "USER_TYPE" @@
  "function_type" :> "FUNCTION_TYPE" @@
  "function_type_parameters" :> "VALUE_PARAMETER_LIST" @@
  "nullable_type" :> "NULLABLE_TYPE" @@
  "not_nullable_type" :> PyNone @@
  "parenthesized_type" :> "PARENTHESIZED" @@
  "parenthesized_user_type" :> PyNone @@
  "type_constraints" :> "TYPE_CONSTRAINT_LIST" @@
  "type_constraint" :> "TYPE_CONSTRAINT" @@
  "receiver_type" :> "FUNCTION_TYPE_RECEIVER" @@
  "delegation_specifier" :> PyNone @@
  "explicit_delegation" :> "DELEGATED_SUPER_TYPE_ENTRY" @@
  "type_identifier" :> PyNone @@
  "simple_identifier" :> PyNone @@
  "identifier" :> PyNone @@
  "modifiers" :> "MODIFIER_LIST" @@
  "class_modifier" :> PyNone @@
  "member_modifier" :> PyNone @@
  "visibility_modifier" :> PyNone @@
  "function_modifier" :> PyNone @@
  "property_modifier" :> PyNone @@
  "inheritance_modifier" :> PyNone @@
  "parameter_modifier" :> PyNone @@
  "parameter_modifiers" :> PyNone @@
  "platform_modifier" :> PyNone @@
  "reification_modifier" :> PyNone @@
  "variance_modifier" :> PyNone @@
  "type_modifiers" :> PyNone @@
  "type_parameter_modifiers" :> PyNone @@
  "type_projection_modifiers" :> PyNone @@
  "annotation" :> "ANNOTATION_ENTRY" @@
  "file_annotation" :> "FILE_ANNOTATION_LIST" @@
  "use_site_target" :> "ANNOTATION_TARGET" @@
  "call_expression" :> "CALL_EXPRESSION" @@
  "call_suffix" :> PyNone @@
  "navigation_expression" :> "DOT_QUALIFIED_EXPRESSION" @@
  "navigation_suffix" :> PyNone @@
  "indexing_expression" :> "ARRAY_ACCESS_EXPRESSION" @@
  "indexing_suffix" :> "INDICES" @@
  "value_arguments" :> "VALUE_ARGUMENT_LIST" @@
  "value_argument" :> "VALUE_ARGUMENT" @@
  "spread_expression" :> PyNone @@
  "parenthesized_expression" :> "PARENTHESIZED" @@
  "if_expression" :> "IF" @@
  "when_expression" :> "WHEN" @@
  "when_subject" :> PyNone @@
  "when_entry" :> "WHEN_ENTRY" @@
  "when_condition" :> PyNone @@
  "try_expression" :> "TRY" @@
  "catch_block" :> "CATCH" @@
  "finally_block" :> "FINALLY" @@
  "jump_expression" :> PyNone @@
  "callable_reference" :> "CALLABLE_REFERENCE_EXPRESSION" @@
  "collection_literal" :> "COLLECTION_LITERAL_EXPRESSION" @@
  "this_expression" :> "THIS_EXPRESSION" @@
  "super_expression" :> "SUPER_EXPRESSION" @@
  "directly_assignable_expression" :> PyNone @@
  "assignment" :> PyNone @@
  "additive_expression" :> "BINARY_EXPRESSION" @@
  "multiplicative_expression" :> "BINARY_EXPRESSION" @@
  "comparison_expression" :> "BINARY_EXPRESSION" @@
  "equality_expression" :> "BINARY_EXPRESSION" @@
  "conjunction_expression" :> "BINARY_EXPRESSION" @@
  "disjunction_expression" :> "BINARY_EXPRESSION" @@
  "elvis_expression" :> "BINARY_EXPRESSION" @@
  "range_expression" :> "BINARY_EXPRESSION" @@
  "infix_expression" :> "BINARY_EXPRESSION" @@
  "as_expression" :> "BINARY_WITH_TYPE" @@
  "check_expression" :> "IS_EXPRESSION" @@
  "prefix_expression" :> "PREFIX_EXPRESSION" @@
  "postfix_expression" :> "POSTFIX_EXPRESSION" @@
  "for_statement" :> "FOR" @@
  "while_statement" :> "WHILE" @@
  "do_while_statement" :> "DO_WHILE" @@
  "control_structure_body" :> "BLOCK" @@
  "range_test" :> "WHEN_CONDITION_IN_RANGE" @@
  "type_test" :> "WHEN_CONDITION_IS_PATTERN" @@
  "lambda_literal" :> "FUNCTION_LITERAL" @@
  "lambda_parameters" :> "VALUE_PARAMETER_LIST" @@
  "annotated_lambda" :> PyNone @@
  "statements" :> PyNone @@
  "multi_variable_declaration" :> "DESTRUCTURING_DECLARATION" @@
  "variable_declaration" :> PyNone @@
  "binding_pattern_kind" :> PyNone @@
  "string_literal" :> "STRING_TEMPLATE" @@
  "string_content" :> "LITERAL_STRING_TEMPLATE_ENTRY" @@
  "interpolated_expression" :> "LONG_STRING_TEMPLATE_ENTRY" @@
  "interpolated_identifier" :> "SHORT_STRING_TEMPLATE_ENTRY" @@
  "character_literal" :> "CHARACTER_CONSTANT" @@
  "character_escape_seq" :> "ESCAPE_STRING_TEMPLATE_ENTRY" @@
  "integer_literal" :> "INTEGER_CONSTANT" @@
  "real_literal" :> "FLOAT_CONSTANT" @@
  "long_literal" :> PyNone @@
  "hex_literal" :> "INTEGER_CONSTANT" @@
  "bin_literal" :> "INTEGER_CONSTANT" @@
  "unsigned_literal" :> "INTEGER_CONSTANT" @@
  "boolean_literal" :> "BOOLEAN_CONSTANT" @@
  "null_literal" :> "NULL" @@
  "label" :> "LABEL" @@
  "line_comment" :> PyNone @@
  "multiline_comment" :> PyNone @@
  "anonymous_initializer" :> "CLASS_INITIALIZER" @@
  "shebang_line" :> PyNone

SKIP_TS_NODES ==
  { "simple_identifier", "type_identifier", "identifier", "line_comment",
    "multiline_comment", "class_modifier", "member_modifier", "visibility_modifier",
    "function_modifier", "property_modifier", "inheritance_modifier", "parameter_modifier",
    "parameter_modifiers", "platform_modifier", "reification_modifier", "variance_modifier",
    "type_modifiers", "type_parameter_modifiers", "type_projection_modifiers",
    "call_suffix", "navigation_suffix", "when_subject", "directly_assignable_expression",
    "binding_pattern_kind", "wildcard_import", "shebang_line", "statements",
    "annotated_lambda", "constructor_invocation", "delegation_specifier", "when_condition",
    "jump_expression", "variable_declaration", "assignment", "not_nullable_type",
    "parenthesized_user_type", "spread_expression", "long_literal" }

\* mutation: the six keys of WRAPPER_COLLAPSE are not skipped
SKIP_PSI_NODES_without_wrapper_keys ==
  { "OPERATION_REFERENCE", "REFERENCE_EXPRESSION", "SUPER_TYPE_LIST",
    "SUPER_TYPE_ENTRY",
    "CONSTRUCTOR_DELEGATION_REFERENCE", "BODY", "THEN", "ELSE", "LOOP_RANGE", "CONDITION",
    "RETURN", "THROW", "BREAK", "CONTINUE", "LAMBDA_ARGUMENT",
    "LABEL_QUALIFIER", "VALUE_ARGUMENT_NAME", "ANNOTATION",
    "ENUM_ENTRY_SUPERCLASS_REFERENCE_EXPRESSION", "INITIALIZER_LIST",
    "KDOC_SECTION", "CLASS_LITERAL_EXPRESSION", "CONTEXT_RECEIVER",
    "CONTEXT_PARAMETER_LIST", "INTERSECTION_TYPE", "DYNAMIC_TYPE" }

SKIP_PSI_NODES ==
  { "TYPE_REFERENCE", "OPERATION_REFERENCE", "REFERENCE_EXPRESSION", "SUPER_TYPE_LIST",
    "SUPER_TYPE_CALL_ENTRY", "SUPER_TYPE_ENTRY", "CONSTRUCTOR_CALLEE",
    "CONSTRUCTOR_DELEGATION_REFERENCE", "BODY", "THEN", "ELSE", "LOOP_RANGE", "CONDITION",
    "RETURN", "THROW", "BREAK", "CONTINUE", "LAMBDA_EXPRESSION", "LAMBDA_ARGUMENT",
    "LABEL_QUALIFIER", "VALUE_ARGUMENT_NAME", "ANNOTATED_EXPRESSION", "ANNOTATION",
    "ENUM_ENTRY_SUPERCLASS_REFERENCE_EXPRESSION", "INITIALIZER_LIST", "LABELED_EXPRESSION",
    "KDOC_SECTION", "CLASS_LITERAL_EXPRESSION", "CONTEXT_RECEIVER",
    "CONTEXT_PARAMETER_LIST", "INTERSECTION_TYPE", "DYNAMIC_TYPE" }

WRAPPER_COLLAPSE ==
  "TYPE_REFERENCE" :> "USER_TYPE" @@
  "SUPER_TYPE_CALL_ENTRY" :> "CONSTRUCTOR_CALLEE" @@
  "CONSTRUCTOR_CALLEE" :> "TYPE_REFERENCE" @@
  "LAMBDA_EXPRESSION" :> "FUNCTION_LITERAL" @@
  "ANNOTATED_EXPRESSION" :> "*" @@
  "LABELED_EXPRESSION" :> "*"

ALL_TS_NAMED_NODES ==
  { "additive_expression", "annotated_lambda", "annotation", "anonymous_function",
    "anonymous_initializer", "as_expression", "assignment", "bin_literal",
    "binding_pattern_kind", "boolean_literal", "call_expression", "call_suffix",
    "callable_reference", "catch_block", "character_escape_seq", "character_literal",
    "check_expression", "class_body", "class_declaration", "class_modifier",
    "class_parameter", "collection_literal", "companion_object", "comparison_expression",
    "conjunction_expression", "constructor_delegation_call", "constructor_invocation",
    "control_structure_body", "delegation_specifier", "directly_assignable_expression",
    "disjunction_expression", "do_while_statement", "elvis_expression", "enum_class_body",
    "enum_entry", "equality_expression", "explicit_delegation", "file_annotation",
    "finally_block", "for_statement", "function_body", "function_declaration",
    "function_modifier", "function_type", "function_type_parameters",
    "function_value_parameters", "getter", "hex_literal", "identifier", "if_expression",
    "import_alias", "import_header", "import_list", "indexing_expression",
    "indexing_suffix", "infix_expression", "inheritance_modifier", "integer_literal",
    "interpolated_expression", "interpolated_identifier", "jump_expression", "label",
    "lambda_literal", "lambda_parameters", "line_comment", "long_literal",
    "member_modifier", "modifiers", "multi_variable_declaration", "multiline_comment",
    "multiplicative_expression", "navigation_expression", "navigation_suffix",
    "not_nullable_type", "null_literal", "nullable_type", "object_declaration",
    "object_literal", "package_header", "parameter", "parameter_modifier",
    "parameter_modifiers", "parameter_with_optional_type", "parenthesized_expression",
    "parenthesized_type", "parenthesized_user_type", "platform_modifier",
    "postfix_expression", "prefix_expression", "primary_constructor",
    "property_declaration", "property_delegate", "property_modifier", "range_expression",
    "range_test", "real_literal", "receiver_type", "reification_modifier",
    "secondary_constructor", "setter", "shebang_line", "simple_identifier", "source_file",
    "spread_expression", "statements", "string_content", "string_literal",
    "super_expression", "this_expression", "try_expression", "type_alias", "type_arguments",
    "type_constraint", "type_constraints", "type_identifier", "type_modifiers",
    "type_parameter", "type_parameter_modifiers", "type_parameters", "type_projection",
    "type_projection_modifiers", "type_test", "unsigned_literal", "use_site_target",
    "user_type", "value_argument", "value_arguments", "variable_declaration",
    "variance_modifier", "visibility_modifier", "when_condition", "when_entry",
    "when_expression", "when_subject", "while_statement", "wildcard_import" }

ALL_PSI_COMPOSITE_NODES ==
  { "ANNOTATED_EXPRESSION", "ANNOTATION", "ANNOTATION_ENTRY", "ANNOTATION_TARGET",
    "ARRAY_ACCESS_EXPRESSION", "BINARY_EXPRESSION", "BINARY_WITH_TYPE", "BLOCK", "BODY",
    "BOOLEAN_CONSTANT", "BREAK", "CALLABLE_REFERENCE_EXPRESSION", "CALL_EXPRESSION",
    "CATCH", "CHARACTER_CONSTANT", "CLASS", "CLASS_BODY", "CLASS_INITIALIZER",
    "CLASS_LITERAL_EXPRESSION", "COLLECTION_LITERAL_EXPRESSION", "CONDITION",
    "CONSTRUCTOR_CALLEE", "CONSTRUCTOR_DELEGATION_CALL", "CONSTRUCTOR_DELEGATION_REFERENCE",
    "CONTEXT_PARAMETER_LIST", "CONTEXT_RECEIVER", "CONTINUE", "DELEGATED_SUPER_TYPE_ENTRY",
    "DESTRUCTURING_DECLARATION", "DESTRUCTURING_DECLARATION_ENTRY",
    "DOT_QUALIFIED_EXPRESSION", "DO_WHILE", "DYNAMIC_TYPE", "ELSE", "ENUM_ENTRY",
    "ENUM_ENTRY_SUPERCLASS_REFERENCE_EXPRESSION", "ESCAPE_STRING_TEMPLATE_ENTRY",
    "FILE_ANNOTATION_LIST", "FINALLY", "FLOAT_CONSTANT", "FOR", "FUN", "FUNCTION_LITERAL",
    "FUNCTION_TYPE", "FUNCTION_TYPE_RECEIVER", "IF", "IMPORT_ALIAS", "IMPORT_DIRECTIVE",
    "IMPORT_LIST", "INDICES", "INITIALIZER_LIST", "INTEGER_CONSTANT", "INTERSECTION_TYPE",
    "IS_EXPRESSION", "KDOC_SECTION", "KtFile", "LABEL", "LABELED_EXPRESSION",
    "LABEL_QUALIFIER", "LAMBDA_ARGUMENT", "LAMBDA_EXPRESSION",
    "LITERAL_STRING_TEMPLATE_ENTRY", "LONG_STRING_TEMPLATE_ENTRY", "LOOP_RANGE",
    "MODIFIER_LIST", "NULL", "NULLABLE_TYPE", "OBJECT_DECLARATION", "OBJECT_LITERAL",
    "OPERATION_REFERENCE", "PACKAGE_DIRECTIVE", "PARENTHESIZED", "POSTFIX_EXPRESSION",
    "PREFIX_EXPRESSION", "PRIMARY_CONSTRUCTOR", "PROPERTY", "PROPERTY_ACCESSOR",
    "PROPERTY_DELEGATE", "REFERENCE_EXPRESSION", "RETURN", "SAFE_ACCESS_EXPRESSION",
    "SECONDARY_CONSTRUCTOR", "SHORT_STRING_TEMPLATE_ENTRY", "STRING_TEMPLATE",
    "SUPER_EXPRESSION", "SUPER_TYPE_CALL_ENTRY", "SUPER_TYPE_ENTRY", "SUPER_TYPE_LIST",
    "THEN", "THIS_EXPRESSION", "THROW", "TRY", "TYPEALIAS", "TYPE_ARGUMENT_LIST",
    "TYPE_CONSTRAINT", "TYPE_CONSTRAINT_LIST", "TYPE_PARAMETER", "TYPE_PARAMETER_LIST",
    "TYPE_PROJECTION", "TYPE_REFERENCE", "USER_TYPE", "VALUE_ARGUMENT",
    "VALUE_ARGUMENT_LIST", "VALUE_ARGUMENT_NAME", "VALUE_PARAMETER", "VALUE_PARAMETER_LIST",
    "WHEN", "WHEN_CONDITION_IN_RANGE", "WHEN_CONDITION_IS_PATTERN",
    "WHEN_CONDITION_WITH_EXPRESSION", "WHEN_ENTRY", "WHILE" }
-----------------------------------------------------------------------------
(* comparator.py                                                           *)

Status == { "MATCH", "MISMATCH", "TS_PARSE_ERROR", "PSI_PARSE_ERROR" }

DiffKind == { "name_mismatch", "missing_child", "extra_child", "child_count_mismatch" }

Difference(path, expected, actual, kind) ==
  [path |-> path, expected |-> expected, actual |-> actual, kind |-> kind]

CompareResult(status, differences) == [status |-> status, differences |-> differences]

\* str() of a non-negative int: its decimal digits
Digit(d) ==
  CASE d = 0 -> "0" [] d = 1 -> "1" [] d = 2 -> "2" [] d = 3 -> "3" [] d = 4 -> "4"
    [] d = 5 -> "5" [] d = 6 -> "6" [] d = 7 -> "7" [] d = 8 -> "8" [] d = 9 -> "9"

RECURSIVE str(_)
str(n) == IF n < 10 THEN Digit(n) ELSE str(n \div 10) \o Digit(n % 10)

min(a, b) == IF a <= b THEN a ELSE b

RECURSIVE _compare_nodes(_, _, _)

\* mutation: the path of a pair takes the candidate's name
current_path_of_ts_name(ts, psi, path) ==
  IF path # "" THEN path \o " > " \o ts.name ELSE ts.name

\* path of the pair being compared: the reference name appended to the
\* caller's path
current_path_of(ts, psi, path) ==
  IF path # "" THEN path \o " > " \o psi.name ELSE psi.name

\* mutation: the index is appended to the path without the separator
child_path_of_unseparated(current_path, i) == current_path \o "[child " \o str(i) \o "]"

\* mutation: the index of an unmatched child counts from one
child_path_of_one_based(current_path, i) ==
  current_path \o " > [child " \o str(i + 1) \o "]"

\* path given to an unmatched child at index i
child_path_of(current_path, i) == current_path \o " > [child " \o str(i) \o "]"

\* mutation: the candidate's name is held against the path, not against the
\* reference name
name_difference_against_path(ts, psi, current_path) ==
  IF ts.name # current_path
  THEN << Difference(current_path, psi.name, ts.name, "name_mismatch") >>
  ELSE <<>>

\* the name check: the difference it appends, if any
name_difference(ts, psi, current_path) ==
  IF ts.name # psi.name
  THEN << Difference(current_path, psi.name, ts.name, "name_mismatch") >>
  ELSE <<>>

\* mutation: expected and actual of the count difference are exchanged
child_count_difference_swapped(ts_children, psi_children, current_path) ==
  IF Len(ts_children) # Len(psi_children)
  THEN << Difference(current_path, str(Len(ts_children)),
                     str(Len(psi_children)), "child_count_mismatch") >>
  ELSE <<>>

\* the child count check: the difference it appends, if any
child_count_difference(ts_children, psi_children, current_path) ==
  IF Len(ts_children) # Len(psi_children)
  THEN << Difference(current_path, str(Len(psi_children)),
                     str(Len(ts_children)), "child_count_mismatch") >>
  ELSE <<>>

\* mutation: the children of the pair are counted and not compared
_compare_nodes_shallow(ts, psi, path) ==
  LET current_path == current_path_of(ts, psi, path)
  IN  name_difference(ts, psi, current_path)
        \o child_count_difference(ts.children, psi.children, current_path)

\* The differences appended by _compare_nodes(ts_node, psi_node, path), in
\* the order they are appended.
_compare_nodes(ts, psi, path) ==
  LET current_path == current_path_of(ts, psi, path)
      ts_children == ts.children
      psi_children == psi.children
      min_count == min(Len(ts_children), Len(psi_children))
      pairwise ==
        Flatten([i \in 1..min_count |->
                   _compare_nodes(ts_children[i], psi_children[i], current_path)])
      extra ==
        [k \in 1..(Len(ts_children) - min_count) |->
           Difference(child_path_of(current_path, min_count + k - 1), "(absent)",
                      ts_children[min_count + k].name, "extra_child")]
      missing ==
        [k \in 1..(Len(psi_children) - min_count) |->
           Difference(child_path_of(current_path, min_count + k - 1),
                      psi_children[min_count + k].name, "(absent)", "missing_child")]
  IN  name_difference(ts, psi, current_path)
        \o child_count_difference(ts_children, psi_children, current_path)
        \o pairwise \o extra \o missing

\* The calls of _compare_nodes made for (ts, psi, path), the outer call
\* first: the pair of nodes of each call and the path it computes.
RECURSIVE _compare_nodes_calls(_, _, _)
_compare_nodes_calls(ts, psi, path) ==
  LET current_path == current_path_of(ts, psi, path)
      min_count == min(Len(ts.children), Len(psi.children))
  IN  << [ts |-> ts, psi |-> psi, path |-> current_path] >> \o
      Flatten([i \in 1..min_count |->
                 _compare_nodes_calls(ts.children[i], psi.children[i], current_path)])

\* mutation: the reference tree is tested for absence first
compare_trees_psi_first(ts, psi) ==
  IF psi = None THEN CompareResult("PSI_PARSE_ERROR", <<>>)
  ELSE IF ts = None THEN CompareResult("TS_PARSE_ERROR", <<>>)
  ELSE LET differences == _compare_nodes(ts, psi, "")
       IN  IF differences # <<>>
           THEN CompareResult("MISMATCH", differences)
           ELSE CompareResult("MATCH", <<>>)

\* mutation: a MISMATCH result is built without the collected differences
compare_trees_drops_differences(ts, psi) ==
  IF ts = None THEN CompareResult("TS_PARSE_ERROR", <<>>)
  ELSE IF psi = None THEN CompareResult("PSI_PARSE_ERROR", <<>>)
  ELSE LET differences == _compare_nodes(ts, psi, "")
       IN  IF differences # <<>>
           THEN CompareResult("MISMATCH", <<>>)
           ELSE CompareResult("MATCH", <<>>)

compare_trees(ts, psi) ==
  IF ts = None THEN CompareResult("TS_PARSE_ERROR", <<>>)
  ELSE IF psi = None THEN CompareResult("PSI_PARSE_ERROR", <<>>)
  ELSE LET differences == _compare_nodes(ts, psi, "")
       IN  IF differences # <<>>
           THEN CompareResult("MISMATCH", differences)
           ELSE CompareResult("MATCH", <<>>)

\* the calls of _compare_nodes made by compare_trees(ts, psi)
compare_trees_calls(ts, psi) ==
  IF ts = None \/ psi = None THEN <<>> ELSE _compare_nodes_calls(ts, psi, "")

-----------------------------------------------------------------------------
(* normalizer.py -- tree-sitter side                                       *)

\* dict.get(key): the value, or None for a missing key
dict_get(d, key) == IF key \in DOMAIN d THEN d[key] ELSE PyNone

\* any(c.name in names for c in children)
any_name_in(children, names) == \E i \in DOMAIN children : children[i].name \in names

\* the loop of _nest_property_accessors over the remaining children
RECURSIVE _nest_property_accessors_loop(_, _)
_nest_property_accessors_loop(children, acc) ==
  IF children = <<>> THEN acc
  ELSE LET child == Head(children)
       IN  _nest_property_accessors_loop(
             Tail(children),
             IF /\ child.name = "PROPERTY_ACCESSOR"
                /\ acc # <<>>
                /\ acc[Len(acc)].name = "PROPERTY"
             THEN [acc EXCEPT ![Len(acc)] =
                     Node("PROPERTY", acc[Len(acc)].children \o <<child>>)]
             ELSE Append(acc, child))

_nest_property_accessors(children) ==
  IF ~ any_name_in(children, {"PROPERTY_ACCESSOR"}) THEN children
  ELSE _nest_property_accessors_loop(children, <<>>)

\* the loop of _inject_value_parameter_list, closed by the flush of the
\* last group
RECURSIVE _inject_value_parameter_list_loop(_, _, _)
_inject_value_parameter_list_loop(children, acc, param_group) ==
  IF children = <<>>
  THEN IF param_group # <<>>
       THEN Append(acc, Node("VALUE_PARAMETER_LIST", param_group))
       ELSE acc
  ELSE LET child == Head(children)
       IN  IF child.name = "VALUE_PARAMETER"
           THEN _inject_value_parameter_list_loop(
                  Tail(children), acc, Append(param_group, child))
           ELSE _inject_value_parameter_list_loop(
                  Tail(children),
                  Append(IF param_group # <<>>
                         THEN Append(acc, Node("VALUE_PARAMETER_LIST", param_group))
                         ELSE acc,
                         child),
                  <<>>)

\* mutation: all parameters are gathered in one list, put where the first
\* of them stood
_inject_value_parameter_list_single_list(children) ==
  IF ~ any_name_in(children, {"VALUE_PARAMETER"}) THEN children
  ELSE LET first == CHOOSE i \in DOMAIN children :
                      /\ children[i].name = "VALUE_PARAMETER"
                      /\ \A j \in 1..(i - 1) : children[j].name # "VALUE_PARAMETER"
           IsParam(c) == c.name = "VALUE_PARAMETER"
           IsOther(c) == c.name # "VALUE_PARAMETER"
       IN  SubSeq(children, 1, first - 1)
           \o << Node("VALUE_PARAMETER_LIST", SelectSeq(children, IsParam)) >>
           \o SelectSeq(SubSeq(children, first, Len(children)), IsOther)

_inject_value_parameter_list(children) ==
  IF ~ any_name_in(children, {"VALUE_PARAMETER"}) THEN children
  ELSE _inject_value_parameter_list_loop(children, <<>>, <<>>)

_unwrap_receiver_type(children) ==
  IF ~ any_name_in(children, {"FUNCTION_TYPE_RECEIVER"}) THEN children
  ELSE Flatten([i \in DOMAIN children |->
                  IF children[i].name = "FUNCTION_TYPE_RECEIVER"
                  THEN children[i].children
                  ELSE << children[i] >>])

RECURSIVE _flatten_call_expression(_)
_flatten_call_expression(children) ==
  IF children = <<>> \/ children[1].name # "CALL_EXPRESSION" THEN children
  ELSE LET inner == children[1]
           rest == Tail(children)
           inner_flattened == _flatten_call_expression(inner.children)
       IN  inner_flattened \o rest

type_names == {"USER_TYPE", "NULLABLE_TYPE", "FUNCTION_TYPE", "PARENTHESIZED"}

\* mutation: only the first child is looked at for wrapping
_wrap_bare_types_in_value_parameter_first_only(children) ==
  IF ~ (\E i \in DOMAIN children :
          children[i].name \in type_names /\ children[i].name # "VALUE_PARAMETER")
  THEN children
  ELSE IF any_name_in(children, {"VALUE_PARAMETER"}) THEN children
  ELSE [i \in DOMAIN children |->
          IF i = 1 /\ children[i].name \in type_names
          THEN Node("VALUE_PARAMETER", << children[i] >>)
          ELSE children[i]]

_wrap_bare_types_in_value_parameter(children) ==
  IF ~ (\E i \in DOMAIN children :
          children[i].name \in type_names /\ children[i].name # "VALUE_PARAMETER")
  THEN children
  ELSE IF any_name_in(children, {"VALUE_PARAMETER"}) THEN children
  ELSE [i \in DOMAIN children |->
          IF children[i].name \in type_names
          THEN Node("VALUE_PARAMETER", << children[i] >>)
          ELSE children[i]]

\* the type-shaped children that make a check_expression an IS_EXPRESSION
type_children ==
  {"user_type", "nullable_type", "parenthesized_type", "function_type", "type_identifier"}

\* mutation: the name is decided on the children left after normalisation
check_expression_name_from_normalized(node, children) ==
  IF any_name_in(children, type_names) THEN "IS_EXPRESSION" ELSE "BINARY_EXPRESSION"

\* the name a check_expression receives: IS_EXPRESSION when one of the
\* node's own children is a type, BINARY_EXPRESSION otherwise
check_expression_name(node, children) ==
  IF any_name_in(node.children, type_children)
  THEN "IS_EXPRESSION" ELSE "BINARY_EXPRESSION"

\* has_statements / has_non_comment_children of the two body rules
has_statements(node) == any_name_in(node.children, {"statements"})

\* mutation: no body is taken for an expression body
has_non_comment_children_never(node) == FALSE

has_non_comment_children(node) ==
  \E i \in DOMAIN node.children :
    node.children[i].name \notin {"statements", "line_comment", "multiline_comment"}

\* mutation: an empty lambda is left without a block
function_literal_children_left_empty(mapped_name, children) == children

\* the children of a FUNCTION_LITERAL: an empty list receives an empty BLOCK
function_literal_children(mapped_name, children) ==
  IF mapped_name = "FUNCTION_LITERAL" /\ children = <<>>
  THEN << Node("BLOCK", <<>>) >> ELSE children

RECURSIVE _normalize_ts_node(_), _normalize_ts_child(_)

\* the children of a tree-sitter node after the recursive normalisation and
\* the nesting of accessors, as _normalize_ts_node holds them when it
\* starts on the node's own name
ts_normalized_children(node) ==
  _nest_property_accessors(
    Flatten([i \in DOMAIN node.children |-> _normalize_ts_child(node.children[i])]))

\* the rules of _normalize_ts_node that follow the name lookup, for a node
\* whose name has a mapping
_normalize_ts_mapped(node, mapped_name0, children0) ==
  LET mapped_name ==
        IF node.name = "check_expression"
        THEN check_expression_name(node, children0)
        ELSE mapped_name0
      expression_body == ~ has_statements(node) /\ has_non_comment_children(node)
  IN
  IF /\ mapped_name = "BLOCK" /\ node.name = "control_structure_body"
     /\ expression_body /\ Len(children0) = 1
  THEN children0[1]
  ELSE IF /\ mapped_name = "BLOCK" /\ node.name = "control_structure_body"
          /\ expression_body /\ children0 = <<>>
  THEN None
  ELSE IF mapped_name = "DOT_QUALIFIED_EXPRESSION" /\ children0 = <<>>
  THEN None
  ELSE
  LET children1 ==
        IF mapped_name \in {"PRIMARY_CONSTRUCTOR", "PROPERTY_ACCESSOR"}
        THEN _inject_value_parameter_list(children0) ELSE children0
      children2 ==
        IF mapped_name \in {"FUN", "PROPERTY"}
        THEN _unwrap_receiver_type(children1) ELSE children1
      children3 ==
        IF mapped_name = "CALL_EXPRESSION"
        THEN _flatten_call_expression(children2) ELSE children2
      children4 == function_literal_children(mapped_name, children3)
      children5 ==
        IF mapped_name = "CLASS_INITIALIZER" /\ children4 # <<>>
        THEN << Node("BLOCK", children4) >> ELSE children4
      children6 ==
        IF mapped_name = "OBJECT_LITERAL" /\ children5 # <<>>
        THEN << Node("OBJECT_DECLARATION", children5) >> ELSE children5
      normalized_children ==
        IF mapped_name = "VALUE_PARAMETER_LIST"
        THEN _wrap_bare_types_in_value_parameter(children6) ELSE children6
  IN
  IF /\ mapped_name = "BLOCK" /\ node.name = "function_body"
     /\ expression_body /\ Len(normalized_children) = 1
  THEN normalized_children[1]
  ELSE IF /\ mapped_name = "BLOCK" /\ node.name = "function_body"
          /\ expression_body /\ normalized_children = <<>>
  THEN None
  ELSE IF mapped_name = "MODIFIER_LIST" /\ normalized_children = <<>>
  THEN None
  ELSE IF mapped_name = "VALUE_PARAMETER_LIST" /\ normalized_children = <<>>
  THEN None
  ELSE Node(mapped_name, normalized_children)

\* mutation: a skipped node with one remaining child is kept over it under
\* its own name
_normalize_ts_skipped_keeps_single(node, normalized_children) ==
  IF Len(normalized_children) = 1 THEN Node(node.name, normalized_children)
  ELSE IF Len(normalized_children) > 1
  THEN LET mapped == dict_get(TS_TO_PSI, node.name)
       IN  IF mapped # PyNone /\ mapped # ""
           THEN Node(mapped, normalized_children)
           ELSE None
  ELSE None

\* mutation: a skipped node with several remaining children falls back to a
\* node of its own name
_normalize_ts_skipped_keeps_several(node, normalized_children) ==
  IF Len(normalized_children) = 1 THEN normalized_children[1]
  ELSE IF Len(normalized_children) > 1
  THEN Node(node.name, normalized_children)
  ELSE None

\* mutation: a skipped node with several remaining children yields the
\* first of them
_normalize_ts_skipped_keeps_first(node, normalized_children) ==
  IF Len(normalized_children) >= 1 THEN normalized_children[1]
  ELSE None

\* the branch of _normalize_ts_node for a name in SKIP_TS_NODES
_normalize_ts_skipped(node, normalized_children) ==
  IF Len(normalized_children) = 1 THEN normalized_children[1]
  ELSE IF Len(normalized_children) > 1
  THEN LET mapped == dict_get(TS_TO_PSI, node.name)
       IN  IF mapped # PyNone /\ mapped # ""
           THEN Node(mapped, normalized_children)
           ELSE None
  ELSE None

\* mutation: a node without a mapping and with several remaining children
\* is dropped
_normalize_ts_unmapped_drops_several(node, normalized_children) ==
  IF Len(normalized_children) = 1 THEN normalized_children[1]
  ELSE None

\* the branch of _normalize_ts_node for a name without a mapping
_normalize_ts_unmapped(node, normalized_children) ==
  IF Len(normalized_children) = 1 THEN normalized_children[1]
  ELSE IF Len(normalized_children) > 1
  THEN Node(node.name, normalized_children)
  ELSE None

_normalize_ts_node(node) ==
  LET normalized_children == ts_normalized_children(node)
      mapped_name == dict_get(TS_TO_PSI, node.name)
  IN  IF node.name \in SKIP_TS_NODES
      THEN _normalize_ts_skipped(node, normalized_children)
      ELSE IF mapped_name = PyNone
      THEN _normalize_ts_unmapped(node, normalized_children)
      ELSE _normalize_ts_mapped(node, mapped_name, normalized_children)

\* mutation: nothing is promoted from a dropped node
_normalize_ts_child_drops_promoted(node) ==
  LET result_ == _normalize_ts_node(node)
  IN  IF result_ # None THEN << result_ >> ELSE <<>>

_normalize_ts_child(node) ==
  LET result_ == _normalize_ts_node(node)
  IN  IF result_ # None THEN << result_ >>
      ELSE Flatten([i \in DOMAIN node.children |->
                      _normalize_ts_child(node.children[i])])

normalize_ts(node) == _normalize_ts_node(node)

-----------------------------------------------------------------------------
(* normalizer.py -- PSI side                                               *)

RECURSIVE _normalize_psi_node(_), _normalize_psi_child(_)

\* the children of a PSI node after the recursive normalisation
psi_normalized_children(node) ==
  Flatten([i \in DOMAIN node.children |-> _normalize_psi_child(node.children[i])])

\* mutation: a skipped node with several remaining children is kept as a
\* wrapper of its own name
_normalize_psi_skipped_keeps_several(node, normalized_children) ==
  IF Len(normalized_children) = 1 THEN normalized_children[1]
  ELSE IF Len(normalized_children) > 1
  THEN Node(node.name, normalized_children)
  ELSE None

\* mutation: a skipped node without remaining children is kept as a leaf
_normalize_psi_skipped_keeps_leaf(node, normalized_children) ==
  IF Len(normalized_children) = 1 THEN normalized_children[1]
  ELSE IF Len(normalized_children) = 0 THEN Node(node.name, <<>>)
  ELSE None

\* the branch of _normalize_psi_node for a name in SKIP_PSI_NODES
_normalize_psi_skipped(node, normalized_children) ==
  IF Len(normalized_children) = 1 THEN normalized_children[1]
  ELSE None

\* the sequence without its element at index j
without_index(s, j) == [k \in 1..(Len(s) - 1) |-> IF k < j THEN s[k] ELSE s[k + 1]]

\* the branch of _normalize_psi_node for a key of WRAPPER_COLLAPSE
_normalize_psi_collapse(node, normalized_children) ==
  LET target == WRAPPER_COLLAPSE[node.name]
      found == { i \in DOMAIN normalized_children : normalized_children[i].name = target }
  IN  IF target = "*" /\ Len(normalized_children) = 1
      THEN normalized_children[1]
      ELSE IF target # "*" /\ found # {}
      THEN LET j == CHOOSE i \in found : \A k \in found : i <= k
               child == normalized_children[j]
               other_children == without_index(normalized_children, j)
           IN  IF other_children # <<>>
               THEN Node(child.name, child.children \o other_children)
               ELSE child
      ELSE Node(node.name, normalized_children)

\* mutation: a PACKAGE_DIRECTIVE is dropped, like the other three, when
\* nothing is left below it
empty_wrapper_after_normalization(node, normalized_children) ==
  /\ node.name \in {"PACKAGE_DIRECTIVE", "IMPORT_LIST", "MODIFIER_LIST",
                    "VALUE_PARAMETER_LIST"}
  /\ normalized_children = <<>>

\* mutation: each of the four wrappers is dropped only when it had no
\* children to begin with
empty_wrapper_before_normalization(node, normalized_children) ==
  /\ node.name \in {"PACKAGE_DIRECTIVE", "IMPORT_LIST", "MODIFIER_LIST",
                    "VALUE_PARAMETER_LIST"}
  /\ node.children = <<>>

\* the four rules for the wrappers PSI emits even when they are empty: a
\* PACKAGE_DIRECTIVE that had no children, and an IMPORT_LIST, MODIFIER_LIST
\* or VALUE_PARAMETER_LIST without normalized children
empty_wrapper(node, normalized_children) ==
  \/ node.name = "PACKAGE_DIRECTIVE" /\ node.children = <<>>
  \/ node.name = "IMPORT_LIST" /\ normalized_children = <<>>
  \/ node.name = "MODIFIER_LIST" /\ normalized_children = <<>>
  \/ node.name = "VALUE_PARAMETER_LIST" /\ normalized_children = <<>>

\* mutation: only a chain link without any normalized child is dropped
pure_chain_only_childless(node, normalized_children) ==
  node.name = "DOT_QUALIFIED_EXPRESSION" /\ normalized_children = <<>>

\* a DOT_QUALIFIED_EXPRESSION whose normalized children, if any, are all
\* DOT_QUALIFIED_EXPRESSION nodes
pure_chain(node, normalized_children) ==
  /\ node.name = "DOT_QUALIFIED_EXPRESSION"
  /\ ~ \E i \in DOMAIN normalized_children :
         normalized_children[i].name # "DOT_QUALIFIED_EXPRESSION"

\* mutation: the wrapper collapse is tried before the skip set
_normalize_psi_node_collapse_first(node) ==
  LET normalized_children == psi_normalized_children(node)
  IN  IF empty_wrapper(node, normalized_children) THEN None
      ELSE IF pure_chain(node, normalized_children) THEN None
      ELSE IF node.name \in DOMAIN WRAPPER_COLLAPSE
      THEN _normalize_psi_collapse(node, normalized_children)
      ELSE IF node.name \in SKIP_PSI_NODES
      THEN _normalize_psi_skipped(node, normalized_children)
      ELSE Node(node.name, normalized_children)

_normalize_psi_node(node) ==
  LET normalized_children == psi_normalized_children(node)
  IN  IF empty_wrapper(node, normalized_children) THEN None
      ELSE IF pure_chain(node, normalized_children) THEN None
      ELSE IF node.name \in SKIP_PSI_NODES
      THEN _normalize_psi_skipped(node, normalized_children)
      ELSE IF node.name \in DOMAIN WRAPPER_COLLAPSE
      THEN _normalize_psi_collapse(node, normalized_children)
      ELSE Node(node.name, normalized_children)

_normalize_psi_child(node) ==
  LET result_ == _normalize_psi_node(node)
  IN  IF result_ # None THEN << result_ >>
      ELSE Flatten([i \in DOMAIN node.children |->
                      _normalize_psi_child(node.children[i])])

normalize_psi(node) == _normalize_psi_node(node)

\* _normalize_psi_node and _normalize_psi_child with the table of wrappers
\* as an argument: the normalizer as it runs when WRAPPER_COLLAPSE is
\* wrapper_collapse
RECURSIVE _normalize_psi_node_with(_, _), _normalize_psi_child_with(_, _)

_normalize_psi_node_with(node, wrapper_collapse) ==
  LET normalized_children ==
        Flatten([i \in DOMAIN node.children |->
                   _normalize_psi_child_with(node.children[i], wrapper_collapse)])
      target == wrapper_collapse[node.name]
      found == { i \in DOMAIN normalized_children : normalized_children[i].name = target }
  IN  IF empty_wrapper(node, normalized_children) THEN None
      ELSE IF pure_chain(node, normalized_children) THEN None
      ELSE IF node.name \in SKIP_PSI_NODES
      THEN _normalize_psi_skipped(node, normalized_children)
      ELSE IF node.name \in DOMAIN wrapper_collapse
      THEN IF target = "*" /\ Len(normalized_children) = 1
           THEN normalized_children[1]
           ELSE IF target # "*" /\ found # {}
           THEN LET j == CHOOSE i \in found : \A k \in found : i <= k
                    child == normalized_children[j]
                    other_children == without_index(normalized_children, j)
                IN  IF other_children # <<>>
                    THEN Node(child.name, child.children \o other_children)
                    ELSE child
           ELSE Node(node.name, normalized_children)
      ELSE Node(node.name, normalized_children)

_normalize_psi_child_with(node, wrapper_collapse) ==
  LET result_ == _normalize_psi_node_with(node, wrapper_collapse)
  IN  IF result_ # None THEN << result_ >>
      ELSE Flatten([i \in DOMAIN node.children |->
                      _normalize_psi_child_with(node.children[i], wrapper_collapse)])

\* a table of wrappers without entries
no_wrappers == [name \in {} |-> ""]

-----------------------------------------------------------------------------
(* normalizer.py -- the calls of the recursive functions                   *)

\* a call: the function, and its argument, a node or a list of children
Frame(fn, node, children) == [fn |-> fn, node |-> node, children |-> children]

\* the calls of fn, one for each node of the list
calls_for_each(fn, nodes) == [i \in DOMAIN nodes |-> Frame(fn, nodes[i], <<>>)]

\* _normalize_ts_node reaches the call of _flatten_call_expression: the
\* name is not skipped and maps to CALL_EXPRESSION
flatten_invoked(node) ==
  /\ node.name \notin SKIP_TS_NODES
  /\ dict_get(TS_TO_PSI, node.name) = "CALL_EXPRESSION"

\* the calls _normalize_ts_node(node) makes: _normalize_ts_child for every
\* child, then _flatten_call_expression for the normalized children of a call
_normalize_ts_node_calls(node) ==
  calls_for_each("_normalize_ts_child", node.children)
    \o IF flatten_invoked(node)
       THEN << Frame("_flatten_call_expression", None, ts_normalized_children(node)) >>
       ELSE <<>>

\* mutation: a dropped node is itself handed to _normalize_ts_child again
_normalize_ts_child_calls_on_itself(node) ==
  _normalize_ts_node_calls(node)
    \o IF _normalize_ts_node(node) = None
       THEN << Frame("_normalize_ts_child", node, <<>>) >>
       ELSE <<>>

\* the calls _normalize_ts_child(node) makes: those of _normalize_ts_node
\* for the node, then, when that returned None, _normalize_ts_child for
\* every child once more
_normalize_ts_child_calls(node) ==
  _normalize_ts_node_calls(node)
    \o IF _normalize_ts_node(node) = None
       THEN calls_for_each("_normalize_ts_child", node.children)
       ELSE <<>>

\* the call _flatten_call_expression(children) makes: itself on the
\* children of a leading CALL_EXPRESSION
_flatten_call_expression_calls(children) ==
  IF children = <<>> \/ children[1].name # "CALL_EXPRESSION" THEN <<>>
  ELSE << Frame("_flatten_call_expression", None, children[1].children) >>

\* the calls _normalize_psi_node(node) makes
_normalize_psi_node_calls(node) ==
  calls_for_each("_normalize_psi_child", node.children)

\* the calls _normalize_psi_child(node) makes: those of _normalize_psi_node
\* for the node, then, when that returned None, _normalize_psi_child for
\* every child once more
_normalize_psi_child_calls(node) ==
  _normalize_psi_node_calls(node)
    \o IF _normalize_psi_node(node) = None
       THEN calls_for_each("_normalize_psi_child", node.children)
       ELSE <<>>

\* the calls a call makes, in the order it makes them
calls_of(frame) ==
  CASE frame.fn = "normalize_ts" -> _normalize_ts_node_calls(frame.node)
    [] frame.fn = "_normalize_ts_child" -> _normalize_ts_child_calls(frame.node)
    [] frame.fn = "_flatten_call_expression" ->
         _flatten_call_expression_calls(frame.children)
    [] frame.fn = "normalize_psi" -> _normalize_psi_node_calls(frame.node)
    [] frame.fn = "_normalize_psi_child" -> _normalize_psi_child_calls(frame.node)

-----------------------------------------------------------------------------
(* parser_psi.py -- the tree of the kept lines                             *)

\* the value parse_psi leaves when it raises ValueError
ValueError == [raised |-> "ValueError"]

\* mutation: the loop goes on over a line of the node's own indent
breaks_at_smaller_indent(child_indent, indent) == child_indent < indent

\* the test that ends the loop of _build_tree: the next line is not
\* indented deeper than the node
breaks_at(child_indent, indent) == child_indent <= indent

\* _build_tree(lines, start, parent_indent): the node built from the line
\* at index start (counted from 0) and the index of the first line that is
\* not part of it
RECURSIVE _build_tree(_, _, _), _build_tree_loop(_, _, _, _)

\* the while loop of _build_tree, entered with the node built so far and
\* the index i of the next line
_build_tree_loop(lines, indent, node, i) ==
  IF i < Len(lines) /\ ~ breaks_at(lines[i + 1].indent, indent)
  THEN LET built == _build_tree(lines, i, indent)
       IN  _build_tree_loop(lines, indent,
                            Node(node.name, Append(node.children, built[1])),
                            built[2])
  ELSE << node, i >>

_build_tree(lines, start, parent_indent) ==
  LET indent == lines[start + 1].indent
      name == lines[start + 1].name
  IN  _build_tree_loop(lines, indent, Node(name, <<>>), start + 1)

\* parse_psi from the list _parse_lines returns: ValueError for an empty
\* list, the tree built from the first line otherwise
parse_psi(lines) ==
  IF lines = <<>> THEN ValueError
  ELSE _build_tree(lines, 0, -1)[1]

-----------------------------------------------------------------------------
(* The inputs.                                                             *)

\* names of the canonical trees handed to compare_trees
CmpNames == {"X", "A", "B"}

\* the arguments of compare_trees: a tree of at most n nodes, or None
CmpInputs(n) == TreesUpTo(CmpNames, n) \cup {None}

\* tree-sitter vocabularies the source trees are built from
TsFamilies ==
  { {"statements", "simple_identifier", "class_body", "integer_literal"},
    {"statements", "property_declaration", "getter", "class_body"} }

\* names of the nodes put below a node of any tree-sitter name
TsKidNames == {"user_type", "simple_identifier"}

\* a node of every tree-sitter name: over a forest of at most kids nodes,
\* alone and below a source_file, and over one leaf of every name
TsVocabularyInputs(kids) ==
  LET tops == { Node(n, f) : n \in ALL_TS_NAMED_NODES,
                             f \in ForestsUpTo(TsKidNames, kids) }
  IN  tops \cup { Node("source_file", <<t>>) : t \in tops }
           \cup { Node(n, << Node(m, <<>>) >>) : n \in ALL_TS_NAMED_NODES,
                                                m \in ALL_TS_NAMED_NODES }

\* the arguments of normalize_ts
TsInputs(n, kids) ==
  UNION { TreesUpTo(F, n) : F \in TsFamilies } \cup TsVocabularyInputs(kids)

\* vocabularies of the source trees the elision rules are run on; ERROR is
\* the name tree-sitter gives a node it could not parse, a name without an
\* entry in TS_TO_PSI
TsElideFamilies ==
  { {"source_file", "class_declaration", "statements", "function_body"},
    {"source_file", "class_declaration", "modifiers", "navigation_expression"},
    {"ERROR", "statements", "integer_literal", "class_body"} }

\* the arguments of normalize_ts for the elision rules
TsElideInputs(n) == UNION { TreesUpTo(F, n) : F \in TsElideFamilies }

\* vocabularies of the source trees the structural rules are run on
TsRuleFamilies ==
  { {"function_declaration", "property_declaration", "receiver_type", "user_type"},
    {"call_expression", "lambda_literal", "integer_literal", "statements"},
    {"function_type_parameters", "user_type", "parameter", "nullable_type"} }

\* the arguments of normalize_ts for the structural rules
TsRuleInputs(n) == UNION { TreesUpTo(F, n) : F \in TsRuleFamilies }

\* vocabulary of the source trees the body rules are run on
TsBodyNames ==
  {"function_body", "control_structure_body", "statements", "integer_literal",
   "line_comment"}

\* the arguments of normalize_ts for the body rules
TsBodyInputs(n) == TreesUpTo(TsBodyNames, n)

\* vocabularies of the source trees the rules for class members and for
\* type checks are run on
TsMemberFamilies ==
  { {"primary_constructor", "getter", "class_parameter", "user_type"},
    {"class_body", "property_declaration", "getter", "setter"},
    {"check_expression", "type_identifier", "user_type", "statements"} }

\* the arguments of normalize_ts for the rules for class members
TsMemberInputs(n) == UNION { TreesUpTo(F, n) : F \in TsMemberFamilies }

\* PSI vocabularies the reference trees are built from
PsiFamilies ==
  { {"ANNOTATED_EXPRESSION", "LABELED_EXPRESSION", "CALL_EXPRESSION", "REFERENCE_EXPRESSION"},
    {"TYPE_REFERENCE", "USER_TYPE", "CONSTRUCTOR_CALLEE", "SUPER_TYPE_CALL_ENTRY"},
    {"LAMBDA_EXPRESSION", "FUNCTION_LITERAL", "BLOCK", "CLASS"} }

\* names of the nodes put below a node of any PSI name
PsiKidNames == {"REFERENCE_EXPRESSION", "USER_TYPE"}

\* a node of every PSI name over a forest of at most kids nodes, alone and
\* below a KtFile
PsiVocabularyInputs(kids) ==
  LET tops == { Node(n, f) : n \in ALL_PSI_COMPOSITE_NODES,
                             f \in ForestsUpTo(PsiKidNames, kids) }
  IN  tops \cup { Node("KtFile", <<t>>) : t \in tops }

\* the arguments of normalize_psi
PsiInputs(n) ==
  UNION { TreesUpTo(F, n) : F \in PsiFamilies } \cup PsiVocabularyInputs(n - 2)

\* PSI vocabularies of the reference trees the rules for empty wrappers and
\* for chains of qualified names are run on
PsiPruneFamilies ==
  { {"KtFile", "PACKAGE_DIRECTIVE", "IMPORT_LIST", "REFERENCE_EXPRESSION"},
    {"MODIFIER_LIST", "VALUE_PARAMETER_LIST", "REFERENCE_EXPRESSION", "CLASS"},
    {"DOT_QUALIFIED_EXPRESSION", "REFERENCE_EXPRESSION", "CALL_EXPRESSION",
     "PACKAGE_DIRECTIVE"} }

\* the arguments of normalize_psi for these rules
PsiPruneInputs(n) == UNION { TreesUpTo(F, n) : F \in PsiPruneFamilies }

\* vocabularies of the trees the calls of the normalizers are followed on
TsCallNames == {"call_expression", "statements", "integer_literal"}

PsiCallNames == {"DOT_QUALIFIED_EXPRESSION", "REFERENCE_EXPRESSION", "CLASS"}

\* names of the lines _parse_lines keeps
LineNames == {"KtFile", "CLASS"}

\* the lists _parse_lines can return: up to n pairs of an indent of at
\* most d and a name
LinesInputs(n, d) ==
  UNION { [1..k -> [indent : 0..d, name : LineNames]] : k \in 0..n }

-----------------------------------------------------------------------------
(* The operations.                                                         *)

\* compare_trees(ts_tree, psi_tree)
CompareTrees ==
  /\ result = NotRun
  /\ result' = compare_trees(ts_tree, psi_tree)
  /\ visited' = compare_trees_calls(ts_tree, psi_tree)
  /\ UNCHANGED <<ts_tree, psi_tree, ts_node, ts_norm, psi_node, psi_norm, psi_again, parsed_lines,
               call_stack>>

\* normalize_ts(ts_node)
NormalizeTs ==
  /\ ts_node # None
  /\ ts_norm = NotRun
  /\ call_stack = <<>>
  /\ ts_norm' = normalize_ts(ts_node)
  /\ UNCHANGED <<ts_tree, psi_tree, result, visited, ts_node, psi_node, psi_norm,
               psi_again, parsed_lines, call_stack>>

\* normalize_psi(psi_node)
NormalizePsi ==
  /\ psi_node # None
  /\ psi_norm = NotRun
  /\ call_stack = <<>>
  /\ psi_norm' = normalize_psi(psi_node)
  /\ UNCHANGED <<ts_tree, psi_tree, result, visited, ts_node, ts_norm, psi_node,
               psi_again, parsed_lines, call_stack>>

\* normalize_psi(psi_norm): the normalizer on a tree it returned
NormalizePsiAgain ==
  /\ psi_norm # NotRun
  /\ psi_norm # None
  /\ psi_again = NotRun
  /\ psi_again' = normalize_psi(psi_norm)
  /\ UNCHANGED <<ts_tree, psi_tree, result, visited, ts_node, ts_norm, psi_node,
               psi_norm, parsed_lines, call_stack>>

\* parse_psi, from the list of kept lines on
ParsePsi ==
  /\ psi_node = NotRun
  /\ psi_node' = parse_psi(parsed_lines)
  /\ UNCHANGED <<ts_tree, psi_tree, result, visited, ts_node, ts_norm, psi_norm,
               psi_again, parsed_lines, call_stack>>

\* normalize_ts is called on a tree
EnterNormalizeTs ==
  /\ ts_node = None /\ psi_node = None
  /\ ts_node' \in TreesUpTo(TsCallNames, MaxTsNodes)
  /\ call_stack' = << Frame("normalize_ts", ts_node', <<>>) >>
  /\ UNCHANGED <<ts_tree, psi_tree, result, visited, ts_norm, psi_node, psi_norm,
               psi_again, parsed_lines>>

\* normalize_psi is called on a tree
EnterNormalizePsi ==
  /\ ts_node = None /\ psi_node = None
  /\ psi_node' \in TreesUpTo(PsiCallNames, MaxPsiNodes)
  /\ call_stack' = << Frame("normalize_psi", psi_node', <<>>) >>
  /\ UNCHANGED <<ts_tree, psi_tree, result, visited, ts_node, ts_norm, psi_norm,
               psi_again, parsed_lines>>

\* the next call of a running normalizer is made: it leaves the stack and
\* the calls it makes take its place
Call ==
  /\ call_stack # <<>>
  /\ call_stack' = calls_of(Head(call_stack)) \o Tail(call_stack)
  /\ UNCHANGED <<ts_tree, psi_tree, result, visited, ts_node, ts_norm, psi_node,
               psi_norm, psi_again, parsed_lines>>

\* the comparator on every pair of canonical trees, absent ones included
InitCompare ==
  /\ ts_tree \in CmpInputs(MaxCmpNodes)
  /\ psi_tree \in CmpInputs(MaxCmpNodes)
  /\ result = NotRun
  /\ visited = <<>>
  /\ ts_node = None /\ ts_norm = NotRun
  /\ psi_node = None /\ psi_norm = NotRun
  /\ psi_again = NotRun /\ parsed_lines = <<>> /\ call_stack = <<>>

NextCompare == CompareTrees

SpecCompare == InitCompare /\ [][NextCompare]_vars

\* the tree-sitter normalizer on every source tree
InitTs ==
  /\ ts_node \in TsInputs(MaxTsNodes, MaxTsKids)
  /\ ts_norm = NotRun
  /\ ts_tree = None /\ psi_tree = None /\ result = NotRun /\ visited = <<>>
  /\ psi_node = None /\ psi_norm = NotRun
  /\ psi_again = NotRun /\ parsed_lines = <<>> /\ call_stack = <<>>

NextTs == NormalizeTs

SpecTs == InitTs /\ [][NextTs]_vars

\* the tree-sitter normalizer on the source trees of the elision rules
InitTsElide ==
  /\ ts_node \in TsElideInputs(MaxTsNodes)
  /\ ts_norm = NotRun
  /\ ts_tree = None /\ psi_tree = None /\ result = NotRun /\ visited = <<>>
  /\ psi_node = None /\ psi_norm = NotRun
  /\ psi_again = NotRun /\ parsed_lines = <<>> /\ call_stack = <<>>

SpecTsElide == InitTsElide /\ [][NextTs]_vars

\* the tree-sitter normalizer on the source trees of the structural rules
InitTsRules ==
  /\ ts_node \in TsRuleInputs(MaxTsNodes)
  /\ ts_norm = NotRun
  /\ ts_tree = None /\ psi_tree = None /\ result = NotRun /\ visited = <<>>
  /\ psi_node = None /\ psi_norm = NotRun
  /\ psi_again = NotRun /\ parsed_lines = <<>> /\ call_stack = <<>>

SpecTsRules == InitTsRules /\ [][NextTs]_vars

\* the tree-sitter normalizer on the source trees of the body rules
InitTsBodies ==
  /\ ts_node \in TsBodyInputs(MaxTsNodes)
  /\ ts_norm = NotRun
  /\ ts_tree = None /\ psi_tree = None /\ result = NotRun /\ visited = <<>>
  /\ psi_node = None /\ psi_norm = NotRun
  /\ psi_again = NotRun /\ parsed_lines = <<>> /\ call_stack = <<>>

SpecTsBodies == InitTsBodies /\ [][NextTs]_vars

\* the tree-sitter normalizer on the source trees of the member rules
InitTsMembers ==
  /\ ts_node \in TsMemberInputs(MaxTsNodes)
  /\ ts_norm = NotRun
  /\ ts_tree = None /\ psi_tree = None /\ result = NotRun /\ visited = <<>>
  /\ psi_node = None /\ psi_norm = NotRun
  /\ psi_again = NotRun /\ parsed_lines = <<>> /\ call_stack = <<>>

SpecTsMembers == InitTsMembers /\ [][NextTs]_vars

\* the PSI normalizer on every reference tree
InitPsi ==
  /\ psi_node \in PsiInputs(MaxPsiNodes)
  /\ psi_norm = NotRun
  /\ ts_tree = None /\ psi_tree = None /\ result = NotRun /\ visited = <<>>
  /\ ts_node = None /\ ts_norm = NotRun
  /\ psi_again = NotRun /\ parsed_lines = <<>> /\ call_stack = <<>>

NextPsi == NormalizePsi

SpecPsi == InitPsi /\ [][NextPsi]_vars

\* the PSI normalizer on the reference trees built from wrapper names
InitPsiWrappers ==
  /\ psi_node \in UNION { TreesUpTo(F, MaxPsiNodes) : F \in PsiFamilies }
  /\ psi_norm = NotRun
  /\ ts_tree = None /\ psi_tree = None /\ result = NotRun /\ visited = <<>>
  /\ ts_node = None /\ ts_norm = NotRun
  /\ psi_again = NotRun /\ parsed_lines = <<>> /\ call_stack = <<>>

SpecPsiWrappers == InitPsiWrappers /\ [][NextPsi]_vars

\* the PSI normalizer, run once and once more on its result, on the
\* reference trees of the rules for empty wrappers and chains
InitPsiPrune ==
  /\ psi_node \in PsiPruneInputs(MaxPsiNodes)
  /\ psi_norm = NotRun
  /\ ts_tree = None /\ psi_tree = None /\ result = NotRun /\ visited = <<>>
  /\ ts_node = None /\ ts_norm = NotRun
  /\ psi_again = NotRun /\ parsed_lines = <<>> /\ call_stack = <<>>

NextPsiPrune == NormalizePsi \/ NormalizePsiAgain

SpecPsiPrune == InitPsiPrune /\ [][NextPsiPrune]_vars

\* the PSI parser on every list of kept lines
InitParsePsi ==
  /\ parsed_lines \in LinesInputs(MaxLines, MaxIndent)
  /\ psi_node = NotRun /\ psi_norm = NotRun /\ psi_again = NotRun
  /\ call_stack = <<>>
  /\ ts_tree = None /\ psi_tree = None /\ result = NotRun /\ visited = <<>>
  /\ ts_node = None /\ ts_norm = NotRun

NextParsePsi == ParsePsi

SpecParsePsi == InitParsePsi /\ [][NextParsePsi]_vars

\* a normalizer called on a tree, call by call until it returns
InitCalls ==
  /\ ts_node = None /\ psi_node = None /\ call_stack = <<>>
  /\ ts_norm = NotRun /\ psi_norm = NotRun /\ psi_again = NotRun
  /\ ts_tree = None /\ psi_tree = None /\ result = NotRun /\ visited = <<>>
  /\ parsed_lines = <<>>

NextCalls ==
  EnterNormalizeTs \/ EnterNormalizePsi \/ Call \/ NormalizeTs \/ NormalizePsi

SpecCalls == InitCalls /\ [][NextCalls]_vars

-----------------------------------------------------------------------------
(* Properties of the comparator (SpecCompare).                             *)

\* compare_trees has returned
Compared == result # NotRun

\* both arguments of compare_trees are trees
BothPresent == ts_tree # None /\ psi_tree # None

\* the differences of one kind, in the order of the list
OfKind(differences, kind) == SelectSeq(differences, LAMBDA d : d.kind = kind)

\* the decimal numerals of the child counts that occur
Decimal(n) == <<"0", "1", "2", "3", "4", "5", "6", "7", "8", "9">>[n + 1]

\* s ends with suffix
EndsWith(s, suffix) ==
  /\ Len(s) >= Len(suffix)
  /\ SubSeq(s, Len(s) - Len(suffix) + 1, Len(s)) = suffix

\* the elements of a sequence
Range(s) == { s[i] : i \in DOMAIN s }

\* how often x occurs in the sequence s
Occurrences(s, x) == Cardinality({ i \in DOMAIN s : s[i] = x })

\* the two sequences hold the same elements the same number of times
SameBag(s, t) ==
  /\ Len(s) = Len(t)
  /\ \A i \in DOMAIN s : Occurrences(s, s[i]) = Occurrences(t, s[i])

\* the names joined by the separator of the paths
RECURSIVE JoinNames(_)
JoinNames(names) ==
  IF Len(names) = 1 THEN names[1]
  ELSE JoinNames(SubSeq(names, 1, Len(names) - 1)) \o " > " \o names[Len(names)]

\* The pairs of nodes at the same position of the two trees, in pre-order,
\* each with the reference-side names from the root down to it.
RECURSIVE AlignedPairs(_, _, _)
AlignedPairs(ts, psi, above) ==
  LET chain == Append(above, psi.name)
  IN  << [ts |-> ts, psi |-> psi, chain |-> chain] >> \o
      Flatten([i \in 1..min(Len(ts.children), Len(psi.children)) |->
                 AlignedPairs(ts.children[i], psi.children[i], chain)])

\* C1: for every tree T, compare_trees(T, T) returns MATCH with an empty
\* difference list.
C1_SelfCompareMatches ==
  (Compared /\ ts_tree # None /\ ts_tree = psi_tree)
    => (result.status = "MATCH" /\ result.differences = <<>>)

\* a tree of the largest size compared with itself
C1_Witness ==
  /\ Compared /\ ts_tree # None /\ ts_tree = psi_tree
  /\ Len(ts_tree.children) >= 1
  /\ Len(visited) = MaxCmpNodes
  /\ result.status = "MATCH"

\* C2: an absent candidate gives TS_PARSE_ERROR whatever the reference is,
\* an absent reference with a present candidate gives PSI_PARSE_ERROR; both
\* with an empty difference list and without any call of _compare_nodes.
C2_AbsentTreesAreParseErrors ==
  Compared =>
    /\ ts_tree = None =>
         (result.status = "TS_PARSE_ERROR" /\ result.differences = <<>> /\ visited = <<>>)
    /\ (ts_tree # None /\ psi_tree = None) =>
         (result.status = "PSI_PARSE_ERROR" /\ result.differences = <<>> /\ visited = <<>>)
    /\ BothPresent => (result.status \in {"MATCH", "MISMATCH"} /\ visited # <<>>)

\* both trees absent: the candidate's absence decides
C2_Witness ==
  /\ Compared /\ ts_tree = None /\ psi_tree = None
  /\ result.status = "TS_PARSE_ERROR"

\* C3 as stated: over all combinations of present and absent trees the
\* difference list is empty if and only if the status is MATCH.
C3_EmptyIffMatch ==
  Compared => ((result.differences = <<>>) <=> (result.status = "MATCH"))

\* C3 amended: the difference list is non-empty if and only if the status is
\* MISMATCH; a MATCH and both parse-error results carry an empty list, and
\* for two present trees the list is empty if and only if the status is MATCH.
C3_NonEmptyIffMismatch ==
  Compared =>
    /\ (result.differences # <<>>) <=> (result.status = "MISMATCH")
    /\ result.status \in {"TS_PARSE_ERROR", "PSI_PARSE_ERROR"} => result.differences = <<>>
    /\ BothPresent => ((result.differences = <<>>) <=> (result.status = "MATCH"))

\* a MISMATCH with its differences
C3_Witness ==
  /\ Compared /\ BothPresent
  /\ result.status = "MISMATCH" /\ Len(result.differences) >= 2

\* C4: every call of _compare_nodes records one CHILD_COUNT_MISMATCH at the
\* path of its pair when the two child counts differ and none when they are
\* equal, with expected the reference count and actual the candidate count
\* in decimal: the CHILD_COUNT_MISMATCH differences are, in order, those of
\* the visited pairs whose counts differ.
C4_ChildCountMismatchPerPair ==
  Compared =>
    OfKind(result.differences, "child_count_mismatch") =
      Flatten([k \in DOMAIN visited |->
                 IF Len(visited[k].ts.children) # Len(visited[k].psi.children)
                 THEN << Difference(visited[k].path,
                                    Decimal(Len(visited[k].psi.children)),
                                    Decimal(Len(visited[k].ts.children)),
                                    "child_count_mismatch") >>
                 ELSE <<>>])

\* a pair below the root whose counts differ, under a root whose counts are
\* equal
C4_Witness ==
  /\ Compared /\ Len(visited) >= 2
  /\ Len(visited[1].ts.children) = Len(visited[1].psi.children)
  /\ \E d \in Range(result.differences) :
       d.kind = "child_count_mismatch" /\ d.expected = "0" /\ d.actual = "1"

\* the unmatched children a pair of nodes has: the kind of difference, the
\* zero-based index and the name of each
UnmatchedOf(pair) ==
  LET ts_children == pair.ts.children
      psi_children == pair.psi.children
  IN  [k \in 1..(Len(ts_children) - Len(psi_children)) |->
         [kind |-> "extra_child", expected |-> "(absent)",
          actual |-> ts_children[Len(psi_children) + k].name,
          index |-> Len(psi_children) + k - 1]]
      \o
      [k \in 1..(Len(psi_children) - Len(ts_children)) |->
         [kind |-> "missing_child",
          expected |-> psi_children[Len(ts_children) + k].name,
          actual |-> "(absent)",
          index |-> Len(ts_children) + k - 1]]

\* the zero-based index an EXTRA_CHILD or MISSING_CHILD path ends in, -1 if
\* it ends in none
IndexAtEnd(path) ==
  LET found == { i \in 0..(MaxCmpNodes + 1) :
                   EndsWith(path, "[child " \o Decimal(i) \o "]") }
  IN  IF found = {} THEN -1 ELSE CHOOSE i \in found : TRUE

\* C5: every visited pair records one EXTRA_CHILD (expected "(absent)",
\* actual the child's name) per candidate child at an index >= the reference
\* child count and one MISSING_CHILD (expected the child's name, actual
\* "(absent)") per reference child at an index >= the candidate child count,
\* at a path that ends in "[child i]" for the zero-based index i of the
\* child; no pair yields both kinds.
C5_OneDifferencePerUnmatchedChild ==
  Compared =>
    LET recorded ==
          SelectSeq(result.differences,
                    LAMBDA d : d.kind \in {"extra_child", "missing_child"})
    IN  /\ SameBag([k \in DOMAIN recorded |->
                      [kind |-> recorded[k].kind, expected |-> recorded[k].expected,
                       actual |-> recorded[k].actual,
                       index |-> IndexAtEnd(recorded[k].path)]],
                   Flatten([k \in DOMAIN visited |-> UnmatchedOf(visited[k])]))
        /\ \A k \in DOMAIN visited :
             Cardinality({ u.kind : u \in Range(UnmatchedOf(visited[k])) }) <= 1

\* a reference with two children more than the candidate
C5_Witness ==
  /\ Compared /\ BothPresent
  /\ Len(psi_tree.children) = Len(ts_tree.children) + 2
  /\ Len(OfKind(result.differences, "missing_child")) = 2
  /\ \E d \in Range(result.differences) :
       d.kind = "missing_child" /\ IndexAtEnd(d.path) = 1

\* the example of C6: the candidate X(A, B) against the reference X(A)
C6_Example ==
  /\ ts_tree = Node("X", << Node("A", <<>>), Node("B", <<>>) >>)
  /\ psi_tree = Node("X", << Node("A", <<>>) >>)

\* C6 as stated: the path of an EXTRA_CHILD or MISSING_CHILD difference is
\* the path P of its pair followed directly by "[child i]", so that the
\* example yields an EXTRA_CHILD at "X[child 1]".
C6_PathDirectlyFollowedByIndex ==
  Compared =>
    /\ \A d \in Range(result.differences) :
         d.kind \in {"extra_child", "missing_child"} =>
           \E k \in DOMAIN visited :
             d.path = visited[k].path \o "[child " \o Decimal(IndexAtEnd(d.path)) \o "]"
    /\ C6_Example =>
         result.differences =
           << Difference("X", "1", "2", "child_count_mismatch"),
              Difference("X[child 1]", "(absent)", "B", "extra_child") >>

\* C6 amended: the path of an EXTRA_CHILD or MISSING_CHILD difference is the
\* path P of its pair, the separator " > " and "[child i]"; the example
\* yields a CHILD_COUNT_MISMATCH (expected "1", actual "2") at "X" and an
\* EXTRA_CHILD at "X > [child 1]" with actual "B".
C6_PathSeparatedFromIndex ==
  Compared =>
    /\ \A d \in Range(result.differences) :
         d.kind \in {"extra_child", "missing_child"} =>
           \E k \in DOMAIN visited :
             /\ d.path = visited[k].path \o " > [child " \o Decimal(IndexAtEnd(d.path)) \o "]"
             /\ \E u \in Range(UnmatchedOf(visited[k])) :
                  /\ u.kind = d.kind /\ u.index = IndexAtEnd(d.path)
                  /\ u.expected = d.expected /\ u.actual = d.actual
    /\ C6_Example =>
         result.differences =
           << Difference("X", "1", "2", "child_count_mismatch"),
              Difference("X > [child 1]", "(absent)", "B", "extra_child") >>

\* the example has been compared
C6_Witness == Compared /\ C6_Example /\ Len(result.differences) = 2

\* C7: every visited pair whose names differ records one NAME_MISMATCH with
\* expected the reference name and actual the candidate name, at the
\* reference-side names from the root down to the pair joined by " > "; the
\* walk goes on below a mismatched pair, so the visited pairs are all the
\* pairs at the same position of the two trees.
C7_NameMismatchAtReferencePath ==
  (Compared /\ BothPresent) =>
    LET pairs == AlignedPairs(ts_tree, psi_tree, <<>>)
    IN  /\ Len(visited) = Len(pairs)
        /\ \A k \in DOMAIN pairs :
             /\ visited[k].ts = pairs[k].ts
             /\ visited[k].psi = pairs[k].psi
             /\ visited[k].path = JoinNames(pairs[k].chain)
        /\ OfKind(result.differences, "name_mismatch") =
             Flatten([k \in DOMAIN pairs |->
                        IF pairs[k].ts.name # pairs[k].psi.name
                        THEN << Difference(JoinNames(pairs[k].chain), pairs[k].psi.name,
                                           pairs[k].ts.name, "name_mismatch") >>
                        ELSE <<>>])

\* a mismatched pair below the root whose children are compared and differ
\* in name too
C7_Witness ==
  /\ Compared /\ Len(visited) = 3
  /\ visited[2].ts.name # visited[2].psi.name
  /\ visited[3].ts.name # visited[3].psi.name
  /\ visited[3].ts.name = visited[2].psi.name
  /\ visited[3].path = visited[2].path \o " > " \o visited[3].psi.name
  /\ Len(OfKind(result.differences, "name_mismatch")) >= 2

-----------------------------------------------------------------------------
(* Properties of the normalizers (SpecTs, SpecPsi).                        *)

\* normalize_ts / normalize_psi has returned
TsNormalized == ts_norm # NotRun

PsiNormalized == psi_norm # NotRun

\* the name maps to "no direct equivalent": its value in TS_TO_PSI is None
NoEquivalent(name) == name \in DOMAIN TS_TO_PSI /\ TS_TO_PSI[name] = PyNone

\* C8: a source node whose name maps to None and that has exactly one
\* normalized child does not appear in the canonical tree; it is replaced,
\* at its position, by that child: _normalize_ts_node returns the child,
\* _normalize_ts_child the one-element list of it, and below a class_body
\* the child stands at the index of the node.
C8_UnmappedSingleChildReplaced ==
  TsNormalized =>
    /\ \A n \in NodesOf(ts_node) :
         (NoEquivalent(n.name) /\ Len(ts_normalized_children(n)) = 1) =>
           /\ _normalize_ts_node(n) = ts_normalized_children(n)[1]
           /\ _normalize_ts_child(n) = << ts_normalized_children(n)[1] >>
    /\ (NoEquivalent(ts_node.name) /\ Len(ts_normalized_children(ts_node)) = 1) =>
         ts_norm = ts_normalized_children(ts_node)[1]
    /\ ( /\ ts_node.name = "class_body"
         /\ \A i \in DOMAIN ts_node.children :
              /\ Len(_normalize_ts_child(ts_node.children[i])) = 1
              /\ _normalize_ts_child(ts_node.children[i])[1].name # "PROPERTY_ACCESSOR" ) =>
         /\ ts_norm.name = "CLASS_BODY"
         /\ Len(ts_norm.children) = Len(ts_node.children)
         /\ \A i \in DOMAIN ts_node.children :
              ( /\ NoEquivalent(ts_node.children[i].name)
                /\ Len(ts_normalized_children(ts_node.children[i])) = 1 ) =>
                /\ ts_norm.children[i] = ts_normalized_children(ts_node.children[i])[1]
                /\ ts_norm.children[i].name # ts_node.children[i].name

\* a class_body whose first child is a statements node over one literal and
\* whose second child is a literal
C8_Witness ==
  /\ TsNormalized
  /\ ts_node.name = "class_body" /\ Len(ts_node.children) = 2
  /\ ts_node.children[1].name = "statements"
  /\ Len(ts_normalized_children(ts_node.children[1])) = 1
  /\ ts_node.children[2].name = "integer_literal"
  /\ ts_norm = Node("CLASS_BODY", << Node("INTEGER_CONSTANT", <<>>),
                                     Node("INTEGER_CONSTANT", <<>>) >>)

\* the keys of WRAPPER_COLLAPSE with the wildcard target
WildcardWrappers == { n \in DOMAIN WRAPPER_COLLAPSE : WRAPPER_COLLAPSE[n] = "*" }

C10_VocabularyClosure ==
  /\ ALL_TS_NAMED_NODES \subseteq DOMAIN TS_TO_PSI
  /\ ( /\ TsNormalized /\ ts_norm # None
       /\ NamesOf(ts_node) \subseteq ALL_TS_NAMED_NODES ) =>
       /\ NamesOf(ts_norm) \subseteq ALL_PSI_COMPOSITE_NODES
       /\ NamesOf(ts_norm) \cap ALL_TS_NAMED_NODES = {}

\* a tree with an identifier and several nodes left after normalisation
C10_Witness ==
  /\ TsNormalized /\ ts_norm # None
  /\ NamesOf(ts_node) \subseteq ALL_TS_NAMED_NODES
  /\ {"simple_identifier", "statements"} \subseteq NamesOf(ts_node)
  /\ Cardinality(NamesOf(ts_norm)) >= 2


\* the number of nodes of that name in a tree, and in a list of trees
RECURSIVE CountName(_, _), CountNameIn(_, _)
CountName(t, name) ==
  (IF t.name = name THEN 1 ELSE 0) + CountNameIn(t.children, name)

CountNameIn(ts, name) ==
  IF ts = <<>> THEN 0 ELSE CountName(Head(ts), name) + CountNameIn(Tail(ts), name)

\* every child of the node is a leaf of that name
AllLeavesNamed(node, name) ==
  \A i \in DOMAIN node.children : node.children[i] = Node(name, <<>>)

\* the results of _normalize_ts_child on the children of a node, in order
PromotedTs(node) ==
  Flatten([i \in DOMAIN node.children |-> _normalize_ts_child(node.children[i])])

\* C11: no node of the tree normalize_psi returns has a name of
\* SKIP_PSI_NODES, however many children the skipped nodes of the reference
\* tree had.
C11_NoSkippedNameSurvives ==
  (PsiNormalized /\ psi_norm # None) =>
    NamesOf(psi_norm) \cap SKIP_PSI_NODES = {}

\* a type over a TYPE_REFERENCE over two types: the reference is gone and
\* the two types stand below the outer one
C11_Witness ==
  /\ PsiNormalized
  /\ psi_node.name = "USER_TYPE" /\ Len(psi_node.children) = 1
  /\ psi_node.children[1].name = "TYPE_REFERENCE"
  /\ Len(psi_normalized_children(psi_node.children[1])) = 2
  /\ psi_norm = Node("USER_TYPE", << Node("USER_TYPE", <<>>), Node("USER_TYPE", <<>>) >>)

\* C12: every name of SKIP_TS_NODES is a key of TS_TO_PSI with the value
\* None, and a source node of such a name normalizes to its one normalized
\* child when exactly one remains and to None otherwise: no node of a mapped
\* name is built for it.
C12_SkippedSourceNodes ==
  /\ \A name \in SKIP_TS_NODES : NoEquivalent(name)
  /\ TsNormalized =>
       /\ \A n \in NodesOf(ts_node) :
            n.name \in SKIP_TS_NODES =>
              _normalize_ts_node(n) =
                IF Len(ts_normalized_children(n)) = 1
                THEN ts_normalized_children(n)[1] ELSE None
       /\ ts_node.name \in SKIP_TS_NODES =>
            /\ ts_norm = IF Len(ts_normalized_children(ts_node)) = 1
                         THEN ts_normalized_children(ts_node)[1] ELSE None
            /\ AllLeavesNamed(ts_node, "user_type") =>
                 ts_norm = IF Len(ts_node.children) = 1
                           THEN Node("USER_TYPE", <<>>) ELSE None

\* a node of a skipped name over two types: normalize_ts returns None
C12_Witness ==
  /\ TsNormalized
  /\ ts_node.name \in SKIP_TS_NODES
  /\ Len(ts_node.children) = 2 /\ AllLeavesNamed(ts_node, "user_type")
  /\ Len(ts_normalized_children(ts_node)) = 2
  /\ ts_norm = None

\* C13: when _normalize_ts_node returns None for a node, _normalize_ts_child
\* returns the results of _normalize_ts_child on its children, in order, and
\* the tree normalize_ts returns for a source_file has as many CLASS nodes as
\* the source tree has class_declaration nodes.
C13_ElisionKeepsDescendants ==
  TsNormalized =>
    /\ \A n \in NodesOf(ts_node) :
         _normalize_ts_node(n) = None => _normalize_ts_child(n) = PromotedTs(n)
    /\ ts_node.name = "source_file" =>
         /\ ts_norm # None
         /\ CountName(ts_norm, "CLASS") = CountName(ts_node, "class_declaration")

\* a source_file over a statements node over two classes: the statements
\* node is elided and both classes end up below the file
C13_Witness ==
  /\ TsNormalized
  /\ ts_node.name = "source_file" /\ Len(ts_node.children) = 1
  /\ ts_node.children[1].name = "statements"
  /\ _normalize_ts_node(ts_node.children[1]) = None
  /\ CountName(ts_node, "class_declaration") = 2
  /\ ts_norm = Node("KtFile", << Node("CLASS", <<>>), Node("CLASS", <<>>) >>)

\* the node has no mapped name to fall back on
NoMappedName(name) == dict_get(TS_TO_PSI, name) = PyNone

\* C14 as stated: a source node without a mapped name that ends up with more
\* than one normalized child normalizes to a node of its own name over all
\* its normalized children, a node of a skipped name included.
C14_SeveralChildrenKeptUnderOwnName ==
  TsNormalized =>
    /\ \A n \in NodesOf(ts_node) :
         (NoMappedName(n.name) /\ Len(ts_normalized_children(n)) > 1) =>
           _normalize_ts_node(n) = Node(n.name, ts_normalized_children(n))
    /\ (NoMappedName(ts_node.name) /\ Len(ts_normalized_children(ts_node)) > 1) =>
         ts_norm = Node(ts_node.name, ts_normalized_children(ts_node))

\* C14 amended: a source node without a mapped name that ends up with more
\* than one normalized child normalizes to a node of its own name over all
\* its normalized children when its name is not in SKIP_TS_NODES; when its
\* name is in SKIP_TS_NODES it normalizes to None and _normalize_ts_child
\* hands its children's results to the parent.
C14_OnlyUnlistedNamesKept ==
  TsNormalized =>
    /\ \A n \in NodesOf(ts_node) :
         (NoMappedName(n.name) /\ Len(ts_normalized_children(n)) > 1) =>
           IF n.name \in SKIP_TS_NODES
           THEN /\ _normalize_ts_node(n) = None
                /\ _normalize_ts_child(n) = PromotedTs(n)
           ELSE _normalize_ts_node(n) = Node(n.name, ts_normalized_children(n))
    /\ (NoMappedName(ts_node.name) /\ Len(ts_normalized_children(ts_node)) > 1) =>
         ts_norm = IF ts_node.name \in SKIP_TS_NODES THEN None
                   ELSE Node(ts_node.name, ts_normalized_children(ts_node))
    /\ ( /\ ts_node.name = "ERROR" /\ Len(ts_node.children) > 1
         /\ AllLeavesNamed(ts_node, "integer_literal") ) =>
         ts_norm = Node("ERROR", [i \in DOMAIN ts_node.children |->
                                    Node("INTEGER_CONSTANT", <<>>)])

\* an ERROR node over a statements node over two literals: the statements
\* node is elided and the ERROR node is kept over the two constants
C14_Witness ==
  /\ TsNormalized
  /\ ts_node.name = "ERROR" /\ Len(ts_node.children) = 1
  /\ ts_node.children[1].name = "statements"
  /\ Len(ts_normalized_children(ts_node.children[1])) = 2
  /\ _normalize_ts_node(ts_node.children[1]) = None
  /\ ts_norm = Node("ERROR", << Node("INTEGER_CONSTANT", <<>>),
                                Node("INTEGER_CONSTANT", <<>>) >>)


\* C15: no FUN or PROPERTY node of the tree normalize_ts returns has a
\* direct child named FUNCTION_TYPE_RECEIVER.
C15_NoReceiverBelowFunOrProperty ==
  (TsNormalized /\ ts_norm # None) =>
    \A n \in NodesOf(ts_norm) :
      n.name \in {"FUN", "PROPERTY"} =>
        \A i \in DOMAIN n.children : n.children[i].name # "FUNCTION_TYPE_RECEIVER"

\* C16: no CALL_EXPRESSION node of the tree normalize_ts returns has a
\* CALL_EXPRESSION as its first child.
C16_NoLeadingNestedCall ==
  (TsNormalized /\ ts_norm # None) =>
    \A n \in NodesOf(ts_norm) :
      (n.name = "CALL_EXPRESSION" /\ n.children # <<>>) =>
        n.children[1].name # "CALL_EXPRESSION"

\* C17: every FUNCTION_LITERAL node of the tree normalize_ts returns has a
\* child, and a lambda_literal without normalized children normalizes to a
\* FUNCTION_LITERAL over one childless BLOCK.
C17_FunctionLiteralHasBlock ==
  TsNormalized =>
    /\ ts_norm # None =>
         \A n \in NodesOf(ts_norm) :
           n.name = "FUNCTION_LITERAL" => n.children # <<>>
    /\ \A n \in NodesOf(ts_node) :
         (n.name = "lambda_literal" /\ ts_normalized_children(n) = <<>>) =>
           _normalize_ts_node(n) =
             Node("FUNCTION_LITERAL", << Node("BLOCK", <<>>) >>)
    /\ ts_node = Node("lambda_literal", <<>>) =>
         ts_norm = Node("FUNCTION_LITERAL", << Node("BLOCK", <<>>) >>)

\* a call over an empty lambda: the lambda receives the empty block
C17_Witness ==
  /\ TsNormalized
  /\ ts_node = Node("call_expression", << Node("lambda_literal", <<>>) >>)
  /\ ts_norm = Node("CALL_EXPRESSION",
                    << Node("FUNCTION_LITERAL", << Node("BLOCK", <<>>) >>) >>)

\* the names of the bare types of a parameter list
BareTypeNames == {"USER_TYPE", "NULLABLE_TYPE", "FUNCTION_TYPE", "PARENTHESIZED"}

\* some child of the node has one of the names
HasChildNamed(node, names) ==
  \E i \in DOMAIN node.children : node.children[i].name \in names

\* the children with every bare type wrapped in a VALUE_PARAMETER of its own
EachBareTypeWrapped(children) ==
  [i \in DOMAIN children |->
     IF children[i].name \in BareTypeNames
     THEN Node("VALUE_PARAMETER", << children[i] >>)
     ELSE children[i]]

\* C18: a VALUE_PARAMETER_LIST node of the tree normalize_ts returns has a
\* bare type as a direct child only if it has a VALUE_PARAMETER child too,
\* and a source node mapped to VALUE_PARAMETER_LIST whose normalized children
\* hold no VALUE_PARAMETER has each bare type wrapped in a VALUE_PARAMETER of
\* its own, in order, the other children unchanged.
C18_BareTypesWrapped ==
  TsNormalized =>
    /\ ts_norm # None =>
         \A n \in NodesOf(ts_norm) :
           (n.name = "VALUE_PARAMETER_LIST" /\ HasChildNamed(n, BareTypeNames)) =>
             HasChildNamed(n, {"VALUE_PARAMETER"})
    /\ \A n \in NodesOf(ts_node) :
         LET c == ts_normalized_children(n)
         IN  ( /\ n.name \in ALL_TS_NAMED_NODES
               /\ TS_TO_PSI[n.name] = "VALUE_PARAMETER_LIST"
               /\ c # <<>>
               /\ \A i \in DOMAIN c : c[i].name # "VALUE_PARAMETER" ) =>
               _normalize_ts_node(n) =
                 Node("VALUE_PARAMETER_LIST", EachBareTypeWrapped(c))
    /\ ( /\ ts_node.name = "function_type_parameters"
         /\ ts_node.children # <<>>
         /\ \A i \in DOMAIN ts_node.children :
              ts_node.children[i] \in { Node("user_type", <<>>),
                                        Node("nullable_type", <<>>) } ) =>
         ts_norm =
           Node("VALUE_PARAMETER_LIST",
                [i \in DOMAIN ts_node.children |->
                   Node("VALUE_PARAMETER",
                        << Node(IF ts_node.children[i].name = "user_type"
                                THEN "USER_TYPE" ELSE "NULLABLE_TYPE", <<>>) >>)])

\* function-type parameters given as two bare types
C18_Witness ==
  /\ TsNormalized
  /\ ts_node = Node("function_type_parameters",
                    << Node("user_type", <<>>), Node("nullable_type", <<>>) >>)
  /\ ts_norm = Node("VALUE_PARAMETER_LIST",
                    << Node("VALUE_PARAMETER", << Node("USER_TYPE", <<>>) >>),
                       Node("VALUE_PARAMETER", << Node("NULLABLE_TYPE", <<>>) >>) >>)

\* the keys of WRAPPER_COLLAPSE with a named target
NamedWrappers == { n \in DOMAIN WRAPPER_COLLAPSE : WRAPPER_COLLAPSE[n] # "*" }

\* the sequence without its j-th element
Without(s, j) == SubSeq(s, 1, j - 1) \o SubSeq(s, j + 1, Len(s))

\* what C19 says normalize gives for a wrapper with a named target over the
\* normalized children c: merged into a child of the target name when there
\* is one, left as it is otherwise
IsCollapseOf(r, name, c) ==
  LET found == { j \in DOMAIN c : c[j].name = WRAPPER_COLLAPSE[name] }
  IN  IF found # {}
      THEN \E j \in found : r = Node(c[j].name, c[j].children \o Without(c, j))
      ELSE r = Node(name, c)

BodyNames == {"function_body", "control_structure_body"}

\* the body has a child that is not a comment
HasNonComment(node) ==
  \E i \in DOMAIN node.children :
    node.children[i].name \notin {"line_comment", "multiline_comment"}

\* C20: a function_body or control_structure_body without a statements
\* child, with a child that is not a comment and with exactly one normalized
\* child normalizes to that child; one with a statements child, or without
\* children, normalizes to a node named BLOCK.
C20_BodyTransparency ==
  TsNormalized =>
    /\ \A n \in NodesOf(ts_node) :
         n.name \in BodyNames =>
           /\ ( /\ ~ HasChildNamed(n, {"statements"})
                /\ HasNonComment(n)
                /\ Len(ts_normalized_children(n)) = 1 ) =>
                _normalize_ts_node(n) = ts_normalized_children(n)[1]
           /\ (HasChildNamed(n, {"statements"}) \/ n.children = <<>>) =>
                /\ _normalize_ts_node(n) # None
                /\ _normalize_ts_node(n).name = "BLOCK"
    /\ ts_node.name \in BodyNames =>
         /\ ( /\ ts_node.children # <<>>
              /\ \A i \in DOMAIN ts_node.children :
                   ts_node.children[i] = Node("line_comment", <<>>)
                   \/ (i = Len(ts_node.children)
                       /\ ts_node.children[i] = Node("integer_literal", <<>>))
              /\ HasChildNamed(ts_node, {"integer_literal"}) ) =>
              ts_norm = Node("INTEGER_CONSTANT", <<>>)
         /\ (HasChildNamed(ts_node, {"statements"}) \/ ts_node.children = <<>>) =>
              /\ ts_norm # None
              /\ ts_norm.name = "BLOCK"

\* a control_structure_body over a statements node and a function_body over
\* one literal: the inner body gives way to the literal, the outer is a BLOCK
C20_Witness ==
  /\ TsNormalized
  /\ ts_node = Node("control_structure_body",
                    << Node("statements", <<>>),
                       Node("function_body", << Node("integer_literal", <<>>) >>) >>)
  /\ _normalize_ts_node(ts_node.children[2]) = Node("INTEGER_CONSTANT", <<>>)
  /\ ts_norm = Node("BLOCK", << Node("INTEGER_CONSTANT", <<>>) >>)

-----------------------------------------------------------------------------
(* Properties of the rules for class members (SpecTsMembers).              *)

\* the child at position i is a parameter
IsParamAt(c, i) == c[i].name = "VALUE_PARAMETER"

\* the first and the last position of the run of parameters around i
RunStart(c, i) ==
  CHOOSE a \in 1..i :
    /\ \A k \in a..i : IsParamAt(c, k)
    /\ a = 1 \/ ~ IsParamAt(c, a - 1)

RunEnd(c, i) ==
  CHOOSE b \in i..Len(c) :
    /\ \A k \in i..b : IsParamAt(c, k)
    /\ b = Len(c) \/ ~ IsParamAt(c, b + 1)

\* where the child at position i is found once every run counts for one
PositionAfterInjection(c, i) ==
  Cardinality({ k \in 1..i : k = 1 \/ ~ IsParamAt(c, k) \/ ~ IsParamAt(c, k - 1) })

\* out is c with every maximal run of parameters replaced, in place, by one
\* VALUE_PARAMETER_LIST over that run
RunsReplaced(c, out) ==
  /\ Len(out) = PositionAfterInjection(c, Len(c))
  /\ \A i \in DOMAIN c :
       out[PositionAfterInjection(c, i)] =
         IF IsParamAt(c, i)
         THEN Node("VALUE_PARAMETER_LIST", SubSeq(c, RunStart(c, i), RunEnd(c, i)))
         ELSE c[i]

\* C21: no PRIMARY_CONSTRUCTOR or PROPERTY_ACCESSOR node of the tree
\* normalize_ts returns has a direct child named VALUE_PARAMETER; a
\* primary_constructor, getter or setter normalizes to a node whose children
\* are its normalized children with every maximal run of VALUE_PARAMETER
\* nodes replaced, at the run's position, by one VALUE_PARAMETER_LIST over
\* exactly that run, the other children keeping their order.
C21_ParameterRunsWrapped ==
  TsNormalized =>
    /\ ts_norm # None =>
         \A n \in NodesOf(ts_norm) :
           n.name \in {"PRIMARY_CONSTRUCTOR", "PROPERTY_ACCESSOR"} =>
             \A i \in DOMAIN n.children : n.children[i].name # "VALUE_PARAMETER"
    /\ \A n \in NodesOf(ts_node) :
         n.name \in {"primary_constructor", "getter", "setter"} =>
           LET r == _normalize_ts_node(n)
           IN  /\ r # None
               /\ r.name = TS_TO_PSI[n.name]
               /\ RunsReplaced(ts_normalized_children(n), r.children)

\* a constructor with a type between two parameters: two lists, one on
\* either side of the type
C21_Witness ==
  /\ TsNormalized
  /\ ts_node = Node("primary_constructor",
                    << Node("class_parameter", <<>>), Node("user_type", <<>>),
                       Node("class_parameter", <<>>) >>)
  /\ ts_norm = Node("PRIMARY_CONSTRUCTOR",
                    << Node("VALUE_PARAMETER_LIST", << Node("VALUE_PARAMETER", <<>>) >>),
                       Node("USER_TYPE", <<>>),
                       Node("VALUE_PARAMETER_LIST", << Node("VALUE_PARAMETER", <<>>) >>) >>)

\* C22: in the tree normalize_ts returns no PROPERTY_ACCESSOR node has a
\* PROPERTY node as its immediately preceding sibling.
C22_NoAccessorAfterProperty ==
  (TsNormalized /\ ts_norm # None) =>
    \A n \in NodesOf(ts_norm) :
      \A i \in DOMAIN n.children :
        (i > 1 /\ n.children[i].name = "PROPERTY_ACCESSOR") =>
          n.children[i - 1].name # "PROPERTY"

\* C23: a check_expression normalizes to a node named IS_EXPRESSION when one
\* of its own children is named user_type, nullable_type,
\* parenthesized_type, function_type or type_identifier, and to a node named
\* BINARY_EXPRESSION otherwise, whatever its normalized children are.
C23_CheckExpressionName ==
  TsNormalized =>
    /\ \A n \in NodesOf(ts_node) :
         n.name = "check_expression" =>
           LET r == _normalize_ts_node(n)
               typed == \E i \in DOMAIN n.children :
                          n.children[i].name \in
                            {"user_type", "nullable_type", "parenthesized_type",
                             "function_type", "type_identifier"}
           IN  /\ r # None
               /\ r.name \in {"IS_EXPRESSION", "BINARY_EXPRESSION"}
               /\ r.name = "IS_EXPRESSION" <=> typed
    /\ ts_node.name = "check_expression" =>
         /\ ts_norm # None
         /\ ts_norm.name = "IS_EXPRESSION" <=>
              \E i \in DOMAIN ts_node.children :
                ts_node.children[i].name \in
                  {"user_type", "nullable_type", "parenthesized_type",
                   "function_type", "type_identifier"}

\* a check against a type name that leaves no child behind is an
\* IS_EXPRESSION all the same, and a type below a statements child does not
\* make one
C23_Witness ==
  /\ TsNormalized
  /\ \/ /\ ts_node = Node("check_expression", << Node("type_identifier", <<>>) >>)
        /\ ts_norm = Node("IS_EXPRESSION", <<>>)
     \/ /\ ts_node = Node("check_expression",
                          << Node("statements", << Node("user_type", <<>>) >>) >>)
        /\ ts_norm = Node("BINARY_EXPRESSION", << Node("USER_TYPE", <<>>) >>)

-----------------------------------------------------------------------------
(* Properties of the PSI rules for empty wrappers and chains (SpecPsiPrune). *)

\* the tree has a PACKAGE_DIRECTIVE node without children
HasChildlessPackageDirective(t) ==
  \E n \in NodesOf(t) : n.name = "PACKAGE_DIRECTIVE" /\ n.children = <<>>

C25_PureChainsElided ==
  PsiNormalized =>
    /\ psi_norm # None =>
         \A n \in NodesOf(psi_norm) :
           n.name = "DOT_QUALIFIED_EXPRESSION" =>
             \E i \in DOMAIN n.children :
               n.children[i].name # "DOT_QUALIFIED_EXPRESSION"
    /\ \A n \in NodesOf(psi_node) :
         n.name = "DOT_QUALIFIED_EXPRESSION" =>
           LET c == psi_normalized_children(n)
           IN  IF \A i \in DOMAIN c : c[i].name = "DOT_QUALIFIED_EXPRESSION"
               THEN /\ _normalize_psi_node(n) = None
                    /\ _normalize_psi_child(n) = c
               ELSE /\ _normalize_psi_node(n) = Node("DOT_QUALIFIED_EXPRESSION", c)
                    /\ _normalize_psi_child(n) = << Node("DOT_QUALIFIED_EXPRESSION", c) >>

\* a link over a link over a call: the outer link holds a link only and is
\* elided, the inner one stays
C25_Witness ==
  /\ PsiNormalized
  /\ psi_node =
       Node("CALL_EXPRESSION",
            << Node("DOT_QUALIFIED_EXPRESSION",
                    << Node("DOT_QUALIFIED_EXPRESSION",
                            << Node("CALL_EXPRESSION", <<>>) >>) >>) >>)
  /\ psi_norm =
       Node("CALL_EXPRESSION",
            << Node("DOT_QUALIFIED_EXPRESSION", << Node("CALL_EXPRESSION", <<>>) >>) >>)

-----------------------------------------------------------------------------
(* Properties of the wrapper tables (SpecPsiWrappers).                     *)

\* C29: every key of WRAPPER_COLLAPSE is in SKIP_PSI_NODES, and
\* normalize_psi returns for every reference tree what the same normalizer
\* returns with a WRAPPER_COLLAPSE without entries: the wrapper-collapse
\* branch is never taken.
C29_CollapseBranchDead ==
  PsiNormalized =>
    /\ psi_norm = _normalize_psi_node_with(psi_node, no_wrappers)
    /\ psi_norm = _normalize_psi_node_with(psi_node, WRAPPER_COLLAPSE)
    /\ \A n \in NodesOf(psi_node) :
         n.name \in DOMAIN WRAPPER_COLLAPSE => n.name \in SKIP_PSI_NODES

\* a lambda wrapper over its literal and a block, below a class: the
\* wrapper is skipped and both children are promoted, the literal does not
\* absorb the block
C29_Witness ==
  /\ PsiNormalized
  /\ psi_node = Node("CLASS",
                     << Node("LAMBDA_EXPRESSION",
                             << Node("FUNCTION_LITERAL", <<>>), Node("BLOCK", <<>>) >>) >>)
  /\ psi_norm = Node("CLASS", << Node("FUNCTION_LITERAL", <<>>), Node("BLOCK", <<>>) >>)

-----------------------------------------------------------------------------
(* Equality of trees and the comparator (SpecCompare).                     *)

\* Node.__eq__: the same name and child sequences equal element by element
RECURSIVE NodeEq(_, _)
NodeEq(a, b) ==
  /\ a.name = b.name
  /\ Len(a.children) = Len(b.children)
  /\ \A i \in DOMAIN a.children : NodeEq(a.children[i], b.children[i])

\* C28: for present trees, compare_trees returns MATCH exactly when the two
\* trees are equal as Node.__eq__ defines it; no pair of unequal trees is
\* reported as MATCH.
C28_MatchIffEqual ==
  (Compared /\ BothPresent) =>
    /\ result.status = "MATCH" <=> NodeEq(ts_tree, psi_tree)
    /\ ~ NodeEq(ts_tree, psi_tree) => result.status = "MISMATCH"

\* two trees of the same shape that differ in the name of a child only
C28_Witness ==
  /\ Compared /\ BothPresent
  /\ ts_tree.name = psi_tree.name
  /\ Len(ts_tree.children) = Len(psi_tree.children)
  /\ \E i \in DOMAIN ts_tree.children :
       ts_tree.children[i].name # psi_tree.children[i].name
  /\ result.status = "MISMATCH"

-----------------------------------------------------------------------------
(* Properties of the PSI parser (SpecParsePsi).                            *)

\* parse_psi has returned a tree
PsiParsed == psi_node # NotRun /\ psi_node # ValueError

\* the nodes of a tree in pre-order
RECURSIVE PreorderNodes(_)
PreorderNodes(t) ==
  << t >> \o Flatten([i \in DOMAIN t.children |-> PreorderNodes(t.children[i])])

\* the number of lines from line i on that go into the node of line i: all
\* lines up to the first later one that is not indented deeper than line i
ExtentOf(lines, i) ==
  LET stops == { j \in (i + 1)..Len(lines) : lines[j].indent <= lines[i].indent }
  IN  IF stops = {} THEN Len(lines) - i + 1
      ELSE (CHOOSE j \in stops : \A k \in stops : j <= k) - i

\* C27: line j lies in the subtree of line i (i < j) exactly when every
\* line i+1..j is indented deeper than line i, and the names of the tree
\* parse_psi returns, in pre-order, are the names of the lines from the
\* first one up to, and without, the first later line that is not indented
\* deeper than the first one.
C27_SubtreeByIndent ==
  PsiParsed =>
    LET lines == parsed_lines
        nodes == PreorderNodes(psi_node)
        m == Len(nodes)
    IN  /\ m = ExtentOf(lines, 1)
        /\ \A k \in 1..m : nodes[k].name = lines[k].name
        /\ \A i \in 1..m :
             /\ nodes[i] = _build_tree(lines, i - 1, -1)[1]
             /\ \A j \in (i + 1)..Len(lines) :
                  (j <= m /\ j < i + Len(PreorderNodes(nodes[i])))
                    <=> \A k \in (i + 1)..j : lines[k].indent > lines[i].indent

\* a second line indented deeper than the third: both are children of the
\* first, and the fourth line, as little indented as the first, is left out
C27_Witness ==
  /\ PsiParsed
  /\ Len(parsed_lines) = 4
  /\ parsed_lines[1].indent = 0 /\ parsed_lines[2].indent = 2
  /\ parsed_lines[3].indent = 1 /\ parsed_lines[4].indent = 0
  /\ Len(psi_node.children) = 2
  /\ Len(PreorderNodes(psi_node)) = 3

-----------------------------------------------------------------------------
(* Termination of the normalizers (SpecCalls).                             *)

\* the nodes below the root of a tree
ProperNodesOf(t) == UNION { NodesOf(t.children[i]) : i \in DOMAIN t.children }

\* the argument of the call made lies strictly below the argument of the
\* call that makes it; the first call of _flatten_call_expression, made
\* by a function on nodes, is handed a list of normalized children
Descends(callee, caller) ==
  IF callee.fn = "_flatten_call_expression"
  THEN caller.fn = "_flatten_call_expression" =>
         \E i \in DOMAIN caller.children :
           callee.children = caller.children[i].children
  ELSE callee.node \in ProperNodesOf(caller.node)

\* the sum of a sequence of numbers
RECURSIVE Sum(_)
Sum(s) == IF s = <<>> THEN 0 ELSE Head(s) + Sum(Tail(s))

\* the number of nodes on the longest path from the root of a tree, or from
\* a root of a forest, down to a leaf
RECURSIVE Height(_)
Height(t) ==
  LET below == {0} \cup { Height(t.children[i]) : i \in DOMAIN t.children }
  IN  1 + CHOOSE h \in below : \A g \in below : g <= h

ForestHeight(f) == Height(Node("", f)) - 1

\* a number that bounds the calls a call on a tree leads to: each child is
\* called for at most twice, and the flattening goes down one level a call
RECURSIVE NodeRank(_)
NodeRank(t) ==
  Height(t) + 2 + 2 * Sum([i \in DOMAIN t.children |-> NodeRank(t.children[i])])

Rank(frame) ==
  IF frame.fn = "_flatten_call_expression"
  THEN 1 + ForestHeight(frame.children)
  ELSE NodeRank(frame.node)

\* the rank of the calls still to be made
Measure(stack) == Sum([k \in DOMAIN stack |-> Rank(stack[k])])

\* a normalizer has returned
Returned == call_stack = <<>> /\ (ts_norm # NotRun \/ psi_norm # NotRun)

\* C26: every call the normalizers make of _normalize_ts_child,
\* _normalize_psi_child and, from itself, of _flatten_call_expression is
\* made on a strict descendant of the argument of the call that makes it,
\* the calls for the children of a node that normalized to absent included;
\* with every call made the rank of the calls still to be made, a natural
\* number, gets smaller, so that normalize_ts and normalize_psi return after
\* finitely many calls.
C26_CallsDescend ==
  [][Call =>
       /\ \A k \in 1..(Len(call_stack') - Len(call_stack) + 1) :
            Descends(call_stack'[k], Head(call_stack))
       /\ Measure(call_stack') < Measure(call_stack)]_vars

\* a call over a statements node with two calls below it: the statements
\* node normalizes to absent and its children are normalized once more, and
\* the flattening of the outer call recurses into the first promoted call
C26_Witness ==
  /\ Returned
  /\ ts_node = Node("call_expression",
                    << Node("statements", << Node("call_expression", <<>>),
                                             Node("call_expression", <<>>) >>) >>)
  /\ ts_norm = Node("CALL_EXPRESSION", << Node("CALL_EXPRESSION", <<>>) >>)

====
